---- MODULE Spec2Model ----
(***************************************************************************)
(* Model of the Notion -> Redis campaign synchronizer                      *)
(* (src/syncNotionToRedis.ts, src/utils/notion.ts).                        *)
(*                                                                         *)
(* Conventions.                                                            *)
(*   - A JavaScript string is a sequence of one-character strings, so that *)
(*     startsWith, substring and the extension regex are computed.         *)
(*   - An optional value (undefined / null) is a sequence of length 0      *)
(*     (None) or 1 (Some(v)); "" is Some(<<>>), which is not None.         *)
(*   - A Redis hash is a function whose DOMAIN is the set of its fields.   *)
(***************************************************************************)
EXTENDS Integers, Sequences, FiniteSets, TLC

\* ------------------------------------------------------------------------
\* JavaScript value helpers
\* ------------------------------------------------------------------------
None == <<>>
Some(v) == <<v>>
IsSome(o) == Len(o) = 1
IsNone(o) == Len(o) = 0

\* truthiness of an optional string: undefined, null and "" are falsy
Truthy(o) == Len(o) = 1 /\ Len(o[1]) > 0

\* a ?? b
Coalesce(a, b) == IF IsSome(a) THEN a ELSE b

\* a || b  (optional strings)
OrElse(a, b) == IF Truthy(a) THEN a ELSE b

\* the set of values of a sequence or function
RANGE(f) == {f[x] : x \in DOMAIN f}

UpperChars == <<"A","B","C","D","E","F","G","H","I","J","K","L","M",
                "N","O","P","Q","R","S","T","U","V","W","X","Y","Z">>
LowerChars == <<"a","b","c","d","e","f","g","h","i","j","k","l","m",
                "n","o","p","q","r","s","t","u","v","w","x","y","z">>
DigitChars == <<"0","1","2","3","4","5","6","7","8","9">>

\* String.prototype.toLowerCase, character by character
LowerChar(c) ==
  IF \E i \in 1..26 : UpperChars[i] = c
  THEN LowerChars[CHOOSE i \in 1..26 : UpperChars[i] = c]
  ELSE c
toLowerCase(s) == [i \in 1..Len(s) |-> LowerChar(s[i])]

\* the character class [a-z0-9] under the /i flag
AlnumChars == RANGE(UpperChars) \cup RANGE(LowerChars) \cup RANGE(DigitChars)
IsAlnum(c) == c \in AlnumChars

\* the least element of a non-empty set of positions (Array.prototype.find,
\* leftmost regex match)
firstIn(S) == CHOOSE x \in S : \A y \in S : x <= y

\* ------------------------------------------------------------------------
\* Notion types (src/utils/notion.ts)
\* ------------------------------------------------------------------------
NotionRichText(s) == [plain_text |-> Some(s)]

\* a property object with none of the payload fields set
NotionProperty == [type |-> "", url |-> None, rich_text |-> None, title |-> None,
                   checkbox |-> None, select |-> None, files |-> None]
NotionUrlProperty(u) == [NotionProperty EXCEPT !.type = "url", !.url = u]
NotionRichTextProperty(runs) == [NotionProperty EXCEPT !.type = "rich_text", !.rich_text = Some(runs)]
NotionTitleProperty(runs) == [NotionProperty EXCEPT !.type = "title", !.title = Some(runs)]
NotionCheckboxProperty(b) == [NotionProperty EXCEPT !.type = "checkbox", !.checkbox = Some(b)]
NotionSelectProperty(sel) == [NotionProperty EXCEPT !.type = "select", !.select = sel]
NotionFilesProperty(fs) == [NotionProperty EXCEPT !.type = "files", !.files = Some(fs)]

\* file references: name optional, one of file / external set
NotionFilesFile(name, url, expiry) ==
  [type |-> "file", name |-> name, file |-> Some([url |-> url, expiry_time |-> expiry]), external |-> None]
NotionFilesExternal(name, url) ==
  [type |-> "external", name |-> name, file |-> None, external |-> Some([url |-> url])]

PropNames == {"Slug", "Destination", "Title", "Description", "Details", "Image", "Thumbnail",
              "Link Tree Enabled", "Category", "Pinned", "Video", "Media", "Files", "File",
              "video", "utm_source", "utm_campaign", "utm_medium"}
NoProperties == [n \in PropNames |-> None]

NotionPage(id, icon, cover, properties) ==
  [id |-> id, icon |-> icon, cover |-> cover, properties |-> properties]

\* rt?.[0]?.plain_text for an optional sequence of runs
getPlainText(rt) ==
  IF IsSome(rt) /\ Len(rt[1]) > 0 THEN rt[1][1].plain_text ELSE None

\* inferKind: /\.([a-z0-9]+)(?:$|\?|#)/i, leftmost match; the greedy run
\* must be followed by the end of the string, "?" or "#"
RunEnd(s, k) ==
  CHOOSE j \in (k - 1)..Len(s) :
    /\ \A m \in k..j : IsAlnum(s[m])
    /\ (j = Len(s) \/ ~IsAlnum(s[j + 1]))
runEndsMatch(s, i, j) ==
  /\ j >= i + 1
  /\ (j = Len(s) \/ s[j + 1] \in {"?", "#"})
ExtMatchAt(s, i) == s[i] = "." /\ runEndsMatch(s, i, RunEnd(s, i + 1))
extHits(s) == {i \in 1..Len(s) : ExtMatchAt(s, i)}
extAt(s, i) == toLowerCase(SubSeq(s, i + 1, RunEnd(s, i + 1)))
extFrom(s, hits) == IF hits = {} THEN None ELSE Some(extAt(s, firstIn(hits)))
ImageExts == {<<"j","p","g">>, <<"j","p","e","g">>, <<"p","n","g">>, <<"g","i","f">>,
              <<"w","e","b","p">>, <<"a","v","i","f">>, <<"s","v","g">>}
VideoExts == {<<"m","p","4">>, <<"w","e","b","m">>, <<"o","g","g">>, <<"m","o","v">>,
              <<"m","4","v">>}
kindOfExt(ext) ==
  IF IsSome(ext) /\ ext[1] \in ImageExts THEN [kind |-> "image", ext |-> ext]
  ELSE IF IsSome(ext) /\ ext[1] \in VideoExts THEN [kind |-> "video", ext |-> ext]
  ELSE [kind |-> "other", ext |-> ext]
inferKind(nameOrUrl) == kindOfExt(extFrom(nameOrUrl, extHits(nameOrUrl)))

\* ------------------------------------------------------------------------
\* Field extraction of one page (src/syncNotionToRedis.ts, loop body)
\* ------------------------------------------------------------------------
\* page.properties ?? {}, then props[name] (None when the name is missing)
props(page) == IF IsSome(page.properties) THEN page.properties[1] ELSE NoProperties

\* (props.X)?.rich_text?.[0]?.plain_text
richPlain(p) == IF IsSome(p) THEN getPlainText(p[1].rich_text) ELSE None
titlePlain(p) == IF IsSome(p) THEN getPlainText(p[1].title) ELSE None
\* (props.X)?.select?.name ?? undefined
selectName(p) ==
  IF IsSome(p) /\ IsSome(p[1].select) THEN p[1].select[1].name ELSE None
\* (props.X)?.url ?? undefined
urlOf(p) == IF IsSome(p) THEN p[1].url ELSE None
\* (props.X)?.type, "" when the property is missing
typeOf(p) == IF IsSome(p) THEN p[1].type ELSE ""
\* (props.X)?.checkbox as a boolean (undefined is falsy)
checkboxOf(p) == IsSome(p) /\ IsSome(p[1].checkbox) /\ p[1].checkbox[1]

rawSlug(page) == richPlain(props(page)["Slug"])
\* variant: every "/" is removed, not only one leading "/"
slugOfStripAll(page) ==
  LET raw    == rawSlug(page)
      keep(c) == c # "/"
  IN IF IsSome(raw) THEN Some(SelectSeq(raw[1], keep)) ELSE raw

\* line 73
slugOf(page) ==
  LET raw == rawSlug(page)
  IN IF IsSome(raw) /\ Len(raw[1]) > 0 /\ raw[1][1] = "/"
     THEN Some(Tail(raw[1]))
     ELSE raw
destinationOf(page) == richPlain(props(page)["Destination"])

\* variant: no fallback to the slug
titleOfNoSlug(page) ==
  Coalesce(richPlain(props(page)["Title"]), titlePlain(props(page)["Title"]))

\* lines 76-78
titleOf(page) ==
  LET titleRich      == richPlain(props(page)["Title"])
      titleFromTitle == Coalesce(titleRich, titlePlain(props(page)["Title"]))
  IN OrElse(titleFromTitle, slugOf(page))
descriptionOf(page) == richPlain(props(page)["Description"])
detailsOf(page) == richPlain(props(page)["Details"])
iconEmojiOf(page) == IF IsSome(page.icon) THEN page.icon[1].emoji ELSE None

\* URL of one file reference as the image chain reads it
fileUrl(f) == IF IsSome(f.file) THEN f.file[1].url ELSE None
externalUrl(f) == IF IsSome(f.external) THEN f.external[1].url ELSE None
coverUrl(page) ==
  IF IsSome(page.cover) /\ IsSome(page.cover[1].external)
  THEN page.cover[1].external[1].url ELSE None

\* lines 84-94: Image ?? Thumbnail, then url / rich_text / files / cover;
\* each step takes the value the steps before it have left
imageProp(page) == Coalesce(props(page)["Image"], props(page)["Thumbnail"])
imageFromUrl(ip) == IF typeOf(ip) = "url" THEN ip[1].url ELSE None
imageFromRichText(ip, sofar) ==
  IF ~Truthy(sofar) /\ typeOf(ip) = "rich_text" THEN getPlainText(ip[1].rich_text) ELSE sofar
urlOfFound(first) ==
  IF IsSome(first.file) THEN fileUrl(first)
  ELSE IF IsSome(first.external) THEN externalUrl(first)
  ELSE None
firstWithUrl(fs, hits) == IF hits = {} THEN None ELSE urlOfFound(fs[firstIn(hits)])
withUrl(fs) == {k \in 1..Len(fs) : Truthy(fileUrl(fs[k])) \/ Truthy(externalUrl(fs[k]))}
imageFromFiles(ip, sofar) ==
  IF ~Truthy(sofar) /\ typeOf(ip) = "files" /\ IsSome(ip[1].files)
  THEN firstWithUrl(ip[1].files[1], withUrl(ip[1].files[1]))
  ELSE sofar
imageFromCover(cover, sofar) == IF ~Truthy(sofar) /\ Truthy(cover) THEN cover ELSE sofar
imageOfProp(ip, cover) ==
  imageFromCover(cover, imageFromFiles(ip, imageFromRichText(ip, imageFromUrl(ip))))
explicitImageUrl(page) == imageOfProp(imageProp(page), coverUrl(page))

\* variant: only the option name "true" enables
linkTreeEnabledOfTrueOnly(page) ==
  LET lte == props(page)["Link Tree Enabled"]
  IN IF typeOf(lte) = "checkbox" THEN checkboxOf(lte)
     ELSE typeOf(lte) = "select"
          /\ toLowerCase(Coalesce(selectName(lte), Some(<<>>))[1]) = <<"t","r","u","e">>

\* lines 96-103
linkTreeEnabledOf(page) ==
  LET lte == props(page)["Link Tree Enabled"]
  IN IF typeOf(lte) = "checkbox" THEN checkboxOf(lte)
     ELSE IF typeOf(lte) = "select"
          THEN LET name == toLowerCase(Coalesce(selectName(lte), Some(<<>>))[1])
               IN name \in {<<"t","r","u","e">>, <<"y","e","s">>,
                            <<"e","n","a","b","l","e","d">>}
          ELSE FALSE

\* lines 106-111
categoryOf(page) == selectName(props(page)["Category"])
\* variant: the checkbox value is not read
pinnedOfSelectOnly(page) ==
  toLowerCase(Coalesce(selectName(props(page)["Pinned"]), Some(<<>>))[1]) = <<"t","r","u","e">>

\* lines 107-110
pinnedOf(page) ==
  \/ checkboxOf(props(page)["Pinned"])
  \/ toLowerCase(Coalesce(selectName(props(page)["Pinned"]), Some(<<>>))[1]) = <<"t","r","u","e">>
explicitVideoUrl(page) == urlOf(props(page)["Video"])

\* variant: the kind is always the inferred one
entryWithInferredKind(name, url, meta, forcedKind, expiry) ==
  [name |-> Coalesce(name, Some(url))[1], url |-> url,
   kind |-> meta.kind, ext |-> meta.ext, expiry |-> expiry]

\* lines 122-137 / 142-157: one file reference to one list entry;
\* forcedKind is None for the primary list and Some("video") for the extras
entryWith(name, url, meta, forcedKind, expiry) ==
  [name |-> Coalesce(name, Some(url))[1], url |-> url,
   kind |-> Coalesce(forcedKind, Some(meta.kind))[1], ext |-> meta.ext, expiry |-> expiry]
entryOf(name, url, forcedKind, expiry) ==
  entryWith(name, url, inferKind(OrElse(name, Some(url))[1]), forcedKind, expiry)
variantUrl(f) == IF f.type = "file" THEN fileUrl(f) ELSE externalUrl(f)
variantExpiry(f) ==
  IF f.type = "file" /\ IsSome(f.file) THEN f.file[1].expiry_time ELSE None
mapFile(f, forcedKind) ==
  IF f.type \in {"file", "external"}
  THEN Some(entryOf(f.name, Coalesce(variantUrl(f), Some(<<>>))[1], forcedKind, variantExpiry(f)))
  ELSE None

RECURSIVE mapFiles(_, _)
mapFiles(fs, forcedKind) ==
  IF fs = <<>> THEN <<>>
  ELSE mapFile(Head(fs), forcedKind) \o mapFiles(Tail(fs), forcedKind)

\* lines 114-159: Media ?? Files ?? Image ?? File, then the "video" extras
filesProp(page) ==
  Coalesce(props(page)["Media"],
    Coalesce(props(page)["Files"],
      Coalesce(props(page)["Image"], props(page)["File"])))
filesOfProp(fp, forcedKind) ==
  IF typeOf(fp) = "files" /\ IsSome(fp[1].files)
  THEN Some(mapFiles(fp[1].files[1], forcedKind)) ELSE None
mergeFiles(primary, extra) ==
  IF IsSome(extra) THEN Some(Coalesce(primary, Some(<<>>))[1] \o extra[1]) ELSE primary
filesOf(page) ==
  mergeFiles(filesOfProp(filesProp(page), None), filesOfProp(props(page)["video"], Some("video")))

\* files.find(pred1) || files.find(pred2)
ofKind(files, kind) == {k \in 1..Len(files) : files[k].kind = kind}
ofExt(files, exts) == {k \in 1..Len(files) : Coalesce(files[k].ext, Some(<<>>))[1] \in exts}
firstOfSets(files, byKind, byExt) ==
  IF byKind # {} THEN Some(files[firstIn(byKind)])
  ELSE IF byExt # {} THEN Some(files[firstIn(byExt)])
  ELSE None
firstOfKind(files, kind, exts) == firstOfSets(files, ofKind(files, kind), ofExt(files, exts))

\* lines 162-169: fallbacks from the files list
urlFromFound(explicit, found) == IF IsSome(found) THEN Some(found[1].url) ELSE explicit
mediaUrl(explicit, fl, kind, exts) ==
  IF ~Truthy(explicit) /\ IsSome(fl) /\ Len(fl[1]) > 0
  THEN urlFromFound(explicit, firstOfKind(fl[1], kind, exts))
  ELSE explicit
imageUrlOf(page) == mediaUrl(explicitImageUrl(page), filesOf(page), "image", ImageExts)
videoUrlOf(page) == mediaUrl(explicitVideoUrl(page), filesOf(page), "video", VideoExts)

\* lines 170-174
utmOf(page) ==
  [utm_source   |-> richPlain(props(page)["utm_source"]),
   utm_campaign |-> richPlain(props(page)["utm_campaign"]),
   utm_medium   |-> richPlain(props(page)["utm_medium"])]

\* JSON.stringify of the files list, character by character: a key whose
\* value is undefined is dropped, keys keep their insertion order, and the
\* quote and the backslash of a string are escaped
RECURSIVE jsonEscape(_)
jsonEscape(s) ==
  IF s = <<>> THEN <<>>
  ELSE (IF Head(s) \in {"\"", "\\"} THEN <<"\\", Head(s)>> ELSE <<Head(s)>>)
       \o jsonEscape(Tail(s))
jsonQuote(s) == <<"\"">> \o jsonEscape(s) \o <<"\"">>
jsonMember(key, value) == jsonQuote(key) \o <<":">> \o jsonQuote(value)
kindChars(kind) ==
  IF kind = "image" THEN <<"i","m","a","g","e">>
  ELSE IF kind = "video" THEN <<"v","i","d","e","o">>
  ELSE <<"o","t","h","e","r">>
jsonOfEntry(e) ==
  <<"{">>
  \o jsonMember(<<"n","a","m","e">>, e.name)
  \o <<",">> \o jsonMember(<<"u","r","l">>, e.url)
  \o <<",">> \o jsonMember(<<"k","i","n","d">>, kindChars(e.kind))
  \o (IF IsSome(e.ext) THEN <<",">> \o jsonMember(<<"e","x","t">>, e.ext[1]) ELSE <<>>)
  \o (IF IsSome(e.expiry)
      THEN <<",">> \o jsonMember(<<"e","x","p","i","r","y">>, e.expiry[1]) ELSE <<>>)
  \o <<"}">>
RECURSIVE jsonOfEntries(_)
jsonOfEntries(files) ==
  IF files = <<>> THEN <<>>
  ELSE jsonOfEntry(Head(files))
       \o (IF Tail(files) = <<>> THEN <<>> ELSE <<",">> \o jsonOfEntries(Tail(files)))
JSONstringify(files) == <<"[">> \o jsonOfEntries(files) \o <<"]">>

\* lines 39-47
removeNullUndefined(obj) == [k \in {x \in DOMAIN obj : IsSome(obj[x])} |-> obj[k][1]]

\* lines 71-174: everything the loop body resolves for one page
resolvedWith(page, fl) ==
  [slug            |-> slugOf(page),
   destination     |-> destinationOf(page),
   utm             |-> utmOf(page),
   linkTreeEnabled |-> linkTreeEnabledOf(page),
   title           |-> titleOf(page),
   description     |-> descriptionOf(page),
   details         |-> detailsOf(page),
   iconEmoji       |-> iconEmojiOf(page),
   imageUrl        |-> mediaUrl(explicitImageUrl(page), fl, "image", ImageExts),
   category        |-> categoryOf(page),
   pinned          |-> pinnedOf(page),
   videoUrl        |-> mediaUrl(explicitVideoUrl(page), fl, "video", VideoExts),
   files           |-> fl]
resolved(page) == resolvedWith(page, filesOf(page))

\* files ? JSON.stringify(files) : undefined
filesJson(fl) == IF IsSome(fl) THEN Some(JSONstringify(fl[1])) ELSE None

\* lines 189-202: the object handed to hset
storedOf(r) ==
  removeNullUndefined(
    [destination     |-> r.destination,
     utm             |-> Some(r.utm),
     linkTreeEnabled |-> Some(r.linkTreeEnabled),
     title           |-> r.title,
     description     |-> r.description,
     details         |-> r.details,
     iconEmoji       |-> r.iconEmoji,
     imageUrl        |-> r.imageUrl,
     category        |-> r.category,
     pinned          |-> Some(r.pinned),
     videoUrl        |-> r.videoUrl,
     files           |-> filesJson(r.files)])
dataToStore(page) == storedOf(resolved(page))

\* variant: the destination is not checked
qualifiesSlugOnly(page) == Truthy(slugOf(page))

\* line 176: if (slug && destination)
qualifies(page) == Truthy(slugOf(page)) /\ Truthy(destinationOf(page))

\* line 179: `campaign:${slug}`
campaignKey(slug) == <<"campaign:">> \o slug

\* lines 180-188: the fields whose stale value is deleted before the write,
\* in the order the deletes are issued
staleOf(r) ==
  (IF ~Truthy(r.imageUrl) THEN <<"imageUrl">> ELSE <<>>)
  \o (IF ~Truthy(r.videoUrl) THEN <<"videoUrl">> ELSE <<>>)
  \o (IF IsNone(r.files) \/ Len(r.files[1]) = 0 THEN <<"files">> ELSE <<>>)

\* variant: no stale field is deleted
staleFieldsNone(page) == <<>>

staleFields(page) == staleOf(resolved(page))

\* ------------------------------------------------------------------------
\* Redis commands on the modelled store
\* ------------------------------------------------------------------------
\* the hash at a key, empty when the key does not exist
hashAt(c, key) == IF key \in DOMAIN c THEN c[key] ELSE <<>>

\* variant: the files list is appended to the stored one instead of replacing it
hsetAppendFiles(h, data) ==
  [f \in DOMAIN h \cup DOMAIN data |->
     IF f \in DOMAIN data
     THEN IF f = "files" /\ f \in DOMAIN h THEN h[f] \o data[f] ELSE data[f]
     ELSE h[f]]

\* HSET key field value [field value ...]: sets the given fields, keeps the others
hset(h, data) ==
  [f \in DOMAIN h \cup DOMAIN data |-> IF f \in DOMAIN data THEN data[f] ELSE h[f]]

\* variant: the delete removes the whole key (DEL) instead of one field
hdelWholeKey(h, field) == <<>>

\* HDEL key field: removes one field, keeps the others
hdel(h, field) == [f \in DOMAIN h \ {field} |-> h[f]]

\* writing a hash to a key; a hash left without fields removes the key, as Redis does
putHash(c, key, h) ==
  IF DOMAIN h = {}
  THEN IF DOMAIN c \ {key} = {} THEN <<>> ELSE [k \in DOMAIN c \ {key} |-> c[k]]
  ELSE [k \in DOMAIN c \cup {key} |-> IF k = key THEN h ELSE c[k]]

\* line 217: SET test_key test_value
testKey == <<"test_key">>
setTestKey(c) == [k \in DOMAIN c \cup {testKey} |-> IF k = testKey THEN <<"test_value">> ELSE c[k]]

\* line 213: KEYS campaign:*
campaignKeys(c) == {k \in DOMAIN c : Len(k) >= 1 /\ k[1] = "campaign:"}

\* ------------------------------------------------------------------------
\* Inputs: pages the document API may return, and what the cache may hold
\* ------------------------------------------------------------------------
sDest == <<"d">>
sImg == <<"i",".","p","n","g">>
sVid == <<"v",".","m","p","4">>
sBanner == <<"b",".","P","N","G">>

\* everything set: raw slug "/a", explicit image and video, one Media file
pageFull ==
  NotionPage("p1", Some([emoji |-> Some(<<"*">>)]), None,
    Some([NoProperties EXCEPT
      !["Slug"] = Some(NotionRichTextProperty(<<NotionRichText(<<"/","a">>)>>)),
      !["Destination"] = Some(NotionRichTextProperty(<<NotionRichText(sDest)>>)),
      !["Title"] = Some(NotionTitleProperty(<<NotionRichText(<<"T">>)>>)),
      !["Description"] = Some(NotionRichTextProperty(<<NotionRichText(<<"D">>)>>)),
      !["Details"] = Some(NotionRichTextProperty(<<NotionRichText(<<"E">>)>>)),
      !["Image"] = Some(NotionUrlProperty(Some(sImg))),
      !["Video"] = Some(NotionUrlProperty(Some(sVid))),
      !["Category"] = Some(NotionSelectProperty(Some([name |-> Some(<<"c">>)]))),
      !["Pinned"] = Some(NotionCheckboxProperty(TRUE)),
      !["Link Tree Enabled"] = Some(NotionSelectProperty(Some([name |-> Some(<<"Y","e","s">>)]))),
      !["Media"] = Some(NotionFilesProperty(<<NotionFilesFile(Some(sBanner), Some(<<"u">>), Some(<<"x">>))>>)),
      !["utm_source"] = Some(NotionRichTextProperty(<<NotionRichText(<<"s">>)>>))]))

\* the same campaign with every optional value removed upstream
pageBare ==
  NotionPage("p2", None, None,
    Some([NoProperties EXCEPT
      !["Slug"] = Some(NotionRichTextProperty(<<NotionRichText(<<"a">>)>>)),
      !["Destination"] = Some(NotionRichTextProperty(<<NotionRichText(sDest)>>))]))

\* a second campaign whose media come from the files lists only; the Media
\* property is kept but emptied for pageMediaEmptied
pageMedia ==
  NotionPage("p3", None, None,
    Some([NoProperties EXCEPT
      !["Slug"] = Some(NotionRichTextProperty(<<NotionRichText(<<"b">>)>>)),
      !["Destination"] = Some(NotionRichTextProperty(<<NotionRichText(sDest)>>)),
      !["Media"] = Some(NotionFilesProperty(<<NotionFilesExternal(None, Some(sImg))>>)),
      !["video"] = Some(NotionFilesProperty(<<NotionFilesExternal(Some(<<"c">>), Some(<<"w">>))>>))]))
pageMediaEmptied ==
  NotionPage("p4", None, None,
    Some([NoProperties EXCEPT
      !["Slug"] = Some(NotionRichTextProperty(<<NotionRichText(<<"b">>)>>)),
      !["Destination"] = Some(NotionRichTextProperty(<<NotionRichText(sDest)>>)),
      !["Media"] = Some(NotionFilesProperty(<<>>))]))

\* pages that do not qualify: Slug missing; Destination with no run;
\* Destination with an empty run; no properties at all
pageNoSlug ==
  NotionPage("p5", None, None,
    Some([NoProperties EXCEPT
      !["Destination"] = Some(NotionRichTextProperty(<<NotionRichText(sDest)>>)),
      !["Image"] = Some(NotionUrlProperty(Some(sImg)))]))
pageNoRun ==
  NotionPage("p6", None, None,
    Some([NoProperties EXCEPT
      !["Slug"] = Some(NotionRichTextProperty(<<NotionRichText(<<"a">>)>>)),
      !["Destination"] = Some(NotionRichTextProperty(<<>>))]))
pageEmptyDest ==
  NotionPage("p7", None, None,
    Some([NoProperties EXCEPT
      !["Slug"] = Some(NotionRichTextProperty(<<NotionRichText(<<"b">>)>>)),
      !["Destination"] = Some(NotionRichTextProperty(<<NotionRichText(<<>>)>>))]))
pageNoProps == NotionPage("p8", None, None, None)

\* a malformed page: its Media array holds a JSON null after one entry
nullEntry == [type |-> "null", name |-> None, file |-> None, external |-> None]
pageMalformed ==
  NotionPage("p9", None, None,
    Some([NoProperties EXCEPT
      !["Slug"] = Some(NotionRichTextProperty(<<NotionRichText(<<"a">>)>>)),
      !["Destination"] = Some(NotionRichTextProperty(<<NotionRichText(sDest)>>)),
      !["Media"] = Some(NotionFilesProperty(<<NotionFilesExternal(None, Some(sImg)), nullEntry>>))]))

Pages == {pageFull, pageBare, pageMedia, pageMediaEmptied,
          pageNoSlug, pageNoRun, pageEmptyDest, pageNoProps}

\* ------------------------------------------------------------------------
\* A wider pool of single pages: every shape of each property the loop body
\* reads, one group of properties varied at a time
\* ------------------------------------------------------------------------
sPromo == <<"/","p","r","o","m","o","-","2","0","2","4">>
sBannerPng == <<"b","a","n","n","e","r",".","p","n","g">>
sCover == <<"c",".","g","i","f">>

\* a qualifying page with the given raw slug, cover and properties
\* (a name mapped to None is a property the page does not have)
widePage(slugText, cover, f) ==
  NotionPage("w", None, cover,
    Some([n \in PropNames |->
            IF n \in DOMAIN f THEN f[n]
            ELSE IF n = "Slug" THEN Some(NotionRichTextProperty(<<NotionRichText(slugText)>>))
            ELSE IF n = "Destination" THEN Some(NotionRichTextProperty(<<NotionRichText(sDest)>>))
            ELSE None]))

SlugPages ==
  {widePage(t, None, <<>>) : t \in {sPromo, <<"/","/","x">>, <<"x">>, <<"x","/">>, <<"/">>, <<>>}}

TitlePages ==
  {widePage(<<"/","x">>, None, "Title" :> t) :
     t \in {None,
            Some(NotionRichTextProperty(<<NotionRichText(<<"T">>), NotionRichText(<<"U">>)>>)),
            Some(NotionRichTextProperty(<<NotionRichText(<<>>)>>)),
            Some(NotionRichTextProperty(<<>>)),
            Some(NotionTitleProperty(<<NotionRichText(<<"N">>), NotionRichText(<<"U">>)>>)),
            Some(NotionTitleProperty(<<NotionRichText(<<>>)>>)),
            Some(NotionTitleProperty(<<>>)),
            Some(NotionUrlProperty(Some(<<"T">>)))}}

\* Image and Thumbnail in every shape that may carry an image (tag tells the
\* two apart), with and without a cover and a Media entry named banner.png
ImagePages ==
  LET ImageOptions(tag) ==
        {None,
         Some(NotionUrlProperty(Some(<<tag, ".", "p", "n", "g">>))),
         Some(NotionUrlProperty(Some(<<>>))),
         Some(NotionUrlProperty(None)),
         Some(NotionRichTextProperty(<<NotionRichText(<<tag, "r">>)>>)),
         Some(NotionRichTextProperty(<<>>)),
         Some(NotionFilesProperty(<<NotionFilesExternal(None, Some(<<>>)),
                                    NotionFilesFile(Some(<<"q",".","m","o","v","?","a">>), Some(<<tag, "f">>), None)>>)),
         Some(NotionFilesProperty(<<NotionFilesExternal(Some(<<"n">>), None)>>)),
         Some(NotionFilesProperty(<<>>))}
      BannerOptions ==
        {None, Some(NotionFilesProperty(<<NotionFilesFile(Some(sBannerPng), Some(<<"u">>), Some(<<"e">>))>>))}
      CoverOptions == {None, Some([external |-> Some([url |-> Some(sCover)])]), Some([external |-> None])}
  IN {widePage(<<"x">>, cover, "Image" :> im @@ "Thumbnail" :> th @@ "Media" :> me) :
        im \in ImageOptions("i"), th \in ImageOptions("t"), cover \in CoverOptions, me \in BannerOptions}

\* shapes of the "video" property: missing, three entries, not typed files
VideoFilesOptions ==
  {None,
   Some(NotionFilesProperty(<<NotionFilesFile(Some(<<"c", ".", "p", "n", "g">>), Some(<<"w">>), Some(<<"e">>)),
                              NotionFilesExternal(None, Some(<<"z", ".", "m", "p", "4">>)),
                              NotionFilesExternal(Some(<<"q", "\"", "\\">>), None)>>)),
   Some(NotionUrlProperty(Some(<<"y">>)))}

\* Media, Files, Image, File each missing, present but not typed files, or
\* typed files with two entries
FilesPages ==
  LET FilesOptions(tag) ==
        {None,
         Some(NotionUrlProperty(Some(<<tag>>))),
         Some(NotionFilesProperty(<<NotionFilesExternal(Some(<<tag, ".", "p", "n", "g">>), Some(<<tag, "1">>)),
                                    NotionFilesFile(None, Some(<<tag, "2", ".", "m", "o", "v">>), Some(<<"e">>))>>))}
  IN {widePage(<<"x">>, None,
               "Media" :> me @@ "Files" :> fs @@ "Image" :> im @@ "File" :> fl @@ "video" :> vf) :
        me \in FilesOptions("m"), fs \in FilesOptions("s"), im \in FilesOptions("i"),
        fl \in FilesOptions("l"), vf \in VideoFilesOptions}

VideoPages ==
  LET VideoOptions ==
        {None, Some(NotionUrlProperty(Some(sVid))), Some(NotionUrlProperty(Some(<<>>))),
         Some(NotionUrlProperty(None))}
      VideoMediaOptions ==
        {None,
         Some(NotionFilesProperty(<<NotionFilesExternal(Some(<<"o", ".", "t", "x", "t">>), Some(<<"o">>)),
                                    NotionFilesExternal(Some(<<"k", ".", "M", "O", "V">>), Some(<<"k">>))>>)),
         Some(NotionFilesProperty(<<NotionFilesExternal(Some(sBannerPng), Some(<<"u">>))>>))}
  IN {widePage(<<"x">>, None, "Video" :> v @@ "Media" :> me @@ "video" :> vf) :
        v \in VideoOptions, me \in VideoMediaOptions, vf \in VideoFilesOptions}

\* shapes of a boolean-like property: checkbox, select, neither, and a
\* property object that carries a checkbox and a select value together
selectNamed(name) == Some([name |-> name])
BooleanPages ==
  LET BooleanOptions ==
        {None,
         Some(NotionCheckboxProperty(TRUE)),
         Some(NotionCheckboxProperty(FALSE)),
         Some([NotionProperty EXCEPT !.type = "checkbox"]),
         Some(NotionSelectProperty(selectNamed(Some(<<"Y","e","s">>)))),
         Some(NotionSelectProperty(selectNamed(Some(<<"T","R","U","E">>)))),
         Some(NotionSelectProperty(selectNamed(Some(<<"e","n","a","b","l","e","d">>)))),
         Some(NotionSelectProperty(selectNamed(Some(<<"n","o">>)))),
         Some(NotionSelectProperty(selectNamed(None))),
         Some(NotionSelectProperty(None)),
         Some(NotionUrlProperty(Some(<<"t","r","u","e">>))),
         Some([NotionCheckboxProperty(TRUE) EXCEPT !.select = selectNamed(Some(<<"n","o">>))]),
         Some([NotionCheckboxProperty(FALSE) EXCEPT !.select = selectNamed(Some(<<"t","r","u","e">>))]),
         Some([NotionSelectProperty(selectNamed(Some(<<"n","o">>))) EXCEPT !.checkbox = Some(TRUE)])}
  IN {widePage(<<"x">>, None, "Pinned" :> pn @@ "Link Tree Enabled" :> lt) :
        pn \in BooleanOptions, lt \in BooleanOptions}

UtmPages ==
  LET UtmOptions == {None, Some(NotionRichTextProperty(<<NotionRichText(<<"s">>)>>)),
                     Some(NotionRichTextProperty(<<>>))}
  IN {widePage(<<"x">>, None, "utm_source" :> a @@ "utm_campaign" :> b @@ "utm_medium" :> c) :
        a \in UtmOptions, b \in UtmOptions, c \in UtmOptions}

WidePages ==
  Pages \cup SlugPages \cup TitlePages \cup ImagePages \cup FilesPages \cup VideoPages
        \cup BooleanPages \cup UtmPages

\* bounds of the exploration
MaxPages == 2
MaxPasses == 2

RECURSIVE SeqsUpTo(_, _)
SeqsUpTo(S, n) ==
  IF n = 0 THEN {<<>>}
  ELSE LET shorter == SeqsUpTo(S, n - 1)
       IN shorter \cup {Append(s, x) : s \in {t \in shorter : Len(t) = n - 1}, x \in S}
ResultLists == SeqsUpTo(Pages, MaxPages)

\* cache contents before the first pass: nothing, or what earlier passes
\* stored for the two campaigns
emptyCache == <<>>
InitCaches ==
  {emptyCache,
   putHash(emptyCache, campaignKey(<<"a">>), hset(<<>>, dataToStore(pageFull))),
   putHash(putHash(emptyCache, campaignKey(<<"a">>), hset(<<>>, dataToStore(pageFull))),
           campaignKey(<<"b">>), hset(<<>>, dataToStore(pageMedia)))}

\* responses of the document API: success with a result list, or an error status
ErrorResponses ==
  {[ok |-> FALSE, status |-> "401", statusText |-> "Unauthorized", body |-> "{\"code\":\"unauthorized\"}", results |-> <<>>,
    has_more |-> FALSE, next_cursor |-> None],
   [ok |-> FALSE, status |-> "500", statusText |-> "Internal Server Error", body |-> "oops", results |-> <<>>,
    has_more |-> FALSE, next_cursor |-> None]}
OkResponses ==
  {[ok |-> TRUE, status |-> "200", statusText |-> "OK", body |-> "", results |-> r,
    has_more |-> FALSE, next_cursor |-> None] : r \in ResultLists}

\* answers whose list holds the malformed page, alone, before or after a
\* qualifying page
MalformedResponses ==
  {[ok |-> TRUE, status |-> "200", statusText |-> "OK", body |-> "", results |-> r,
    has_more |-> FALSE, next_cursor |-> None] :
     r \in {<<pageMalformed>>} \cup {<<p, pageMalformed>> : p \in {pageFull, pageMedia}}
                               \cup {<<pageMalformed, p>> : p \in {pageFull, pageMedia}}}

Responses == OkResponses \cup ErrorResponses \cup MalformedResponses

\* success with a single result item drawn from the wider pool; the database
\* may hold more items than the answer carries (has_more with a cursor)
WideResponses ==
  {[ok |-> TRUE, status |-> "200", statusText |-> "OK", body |-> "", results |-> <<p>>,
    has_more |-> more, next_cursor |-> IF more THEN Some("cursor-2") ELSE None] :
     p \in WidePages, more \in BOOLEAN}

EnvNames == {"NOTION_KEY", "NOTION_REDIRECTS_ID", "UPSTASH_REDIS_REST_URL", "UPSTASH_REDIS_REST_TOKEN"}

\* ------------------------------------------------------------------------
\* The process: one run of the script is one pass
\* ------------------------------------------------------------------------
VARIABLES
  env,        \* which environment values are present
  pc,         \* position of the process
  pass,       \* number of the current run of the script
  response,   \* the response of the document API in this run
  idx,        \* number of result items the for loop has finished
  cache,      \* the Redis store: key -> hash (or string value)
  events,     \* network calls and console output of this run, in order
  thrown,     \* the error raised in this run, if any
  exitCode,   \* exit code of the process, once it has exited
  prev        \* results, final cache and outcome of the previous run

\* The other programs of the repository, each with its own state; while one
\* program runs, the state of the others stays as it is.
VARIABLES
  \* git_commit_safeguard.sh
  options,                \* the values the argument loop leaves in the CONFIG variables
  shellPc,                \* position of the main shell
  nextDir,                \* index in SUBDIRS of the next directory of the main loop
  circuit_breaker_count,  \* the counter of the main shell
  jobs,                   \* directory -> the run of commit_and_push_dir on it
  trace,                  \* directory -> the commands run in it, in order
  pushes,                 \* the git push commands of the whole run, in order
  exitStatus,             \* exit status of the script, once it has ended
  \* git_push_all.sh, counting versions
  script,                 \* which counting version runs
  pushAllPc,              \* position of the script
  success_count, failure_count, up_to_date_count, total_repos, untracked_count,
  outcomes,               \* what git_process_repo did for each repository, in order
  \* strapi-utils.ts, postItems
  items,                  \* the list handed to postItems
  verbose,                \* the verbose option
  postPc,                 \* position of postItems
  created,                \* the counter of line 45
  posts,                  \* the POST requests issued, in order, with their outcome
  console                 \* console output of postItems

safeguardVars ==
  <<options, shellPc, nextDir, circuit_breaker_count, jobs, trace, pushes, exitStatus>>
pushAllVars ==
  <<script, pushAllPc, success_count, failure_count, up_to_date_count, total_repos,
    untracked_count, outcomes>>
strapiVars == <<items, verbose, postPc, created, posts, console>>
syncVars == <<env, pc, pass, response, idx, cache, events, thrown, exitCode, prev>>

vars == <<syncVars, safeguardVars, pushAllVars, strapiVars>>

\* a program that is not the one running
safeguardOff ==
  /\ options = <<>> /\ shellPc = "off" /\ nextDir = 0 /\ circuit_breaker_count = 0
  /\ jobs = <<>> /\ trace = <<>> /\ pushes = <<>> /\ exitStatus = <<>>
pushAllOff ==
  /\ script = "" /\ pushAllPc = "off"
  /\ success_count = 0 /\ failure_count = 0 /\ up_to_date_count = 0
  /\ total_repos = 0 /\ untracked_count = 0 /\ outcomes = <<>>
strapiOff ==
  /\ items = <<>> /\ verbose = FALSE /\ postPc = "off" /\ created = 0
  /\ posts = <<>> /\ console = <<>>

Event(kind, page, key, field, ok, msg) ==
  [kind |-> kind, page |-> page, key |-> key, field |-> field, ok |-> ok, msg |-> msg]

results == IF IsSome(response) THEN response[1].results ELSE <<>>

\* the cache answers only when its endpoint and token are configured
cacheReachable == env["UPSTASH_REDIS_REST_URL"] /\ env["UPSTASH_REDIS_REST_TOKEN"]

\* variant: the status is left out of the message
notionErrorNoStatus(resp) == <<"Notion API error:">>

\* line 63: the Error thrown for a non-success status
notionError(resp) == <<"Notion API error:", resp.status, resp.statusText>>
\* line 62: console.error(`Notion API error: ...`, errorBody)
notionErrorLog(resp) == <<"Notion API error:", resp.status, resp.statusText, resp.body>>
\* line 36
configError == <<"Missing NOTION_KEY or NOTION_REDIRECTS_ID in environment">>

\* line 210: console.error('Sync error:', error)
syncErrorLog(err) == Event("console.error", 0, <<>>, "", TRUE, <<"Sync error:">> \o err)

\* variant: the verification block is not in a finally clause
afterCatchNoFinally == "resolved"

\* lines 209-211: where control goes once the catch block has logged
afterCatch == "finally"

\* variant: a failed delete is not caught, the calls after it are not issued
pageCallsDeleteThrows(i, page, oks, hsetOk) ==
  LET key    == campaignKey(slugOf(page)[1])
      sf     == staleFields(page)
      failed == {k \in 1..Len(sf) : ~oks[k]}
      last   == IF failed = {} THEN Len(sf) ELSE CHOOSE k \in failed : \A m \in failed : k <= m
  IN [k \in 1..last |-> Event("hdel", i, key, sf[k], oks[k], <<>>)]
     \o (IF failed = {} THEN <<Event("hset", i, key, "", hsetOk, <<>>)>> ELSE <<>>)

\* variant: the record is written before the stale fields are deleted
pageCallsWriteFirst(i, page, oks, hsetOk) ==
  LET key == campaignKey(slugOf(page)[1])
      sf  == staleFields(page)
  IN <<Event("hset", i, key, "", hsetOk, <<>>)>>
     \o [k \in 1..Len(sf) |-> Event("hdel", i, key, sf[k], oks[k], <<>>)]

\* variant: the record is written twice
pageCallsTwoWrites(i, page, oks, hsetOk) ==
  LET key == campaignKey(slugOf(page)[1])
      sf  == staleFields(page)
  IN [k \in 1..Len(sf) |-> Event("hdel", i, key, sf[k], oks[k], <<>>)]
     \o <<Event("hset", i, key, "", hsetOk, <<>>), Event("hset", i, key, "", hsetOk, <<>>)>>

\* lines 180-203: the cache calls issued for qualifying page number i, in order;
\* oks[k] tells whether the k-th stale-field delete succeeds (a failure is
\* caught by the empty catch), hsetOk whether the write succeeds
pageCalls(i, page, oks, hsetOk) ==
  LET key == campaignKey(slugOf(page)[1])
      sf  == staleFields(page)
  IN [k \in 1..Len(sf) |-> Event("hdel", i, key, sf[k], oks[k], <<>>)]
     \o <<Event("hset", i, key, "", hsetOk, <<>>)>>

\* effect of one issued call on the store
applyCall(c, call, page) ==
  IF ~call.ok THEN c
  ELSE IF call.kind = "hdel" THEN putHash(c, call.key, hdel(hashAt(c, call.key), call.field))
  ELSE IF call.kind = "hset" THEN putHash(c, call.key, hset(hashAt(c, call.key), dataToStore(page)))
  ELSE c

RECURSIVE applyCalls(_, _, _)
applyCalls(c, calls, page) ==
  IF calls = <<>> THEN c
  ELSE applyCalls(applyCall(c, Head(calls), page), Tail(calls), page)

\* lines 122-123, 142-143: the map callback reads f.type of every entry
hasNull(fp) ==
  /\ typeOf(fp) = "files"
  /\ IsSome(fp[1].files)
  /\ \E k \in 1..Len(fp[1].files[1]) : fp[1].files[1][k] = nullEntry
\* line 90: the find callback reads f.file of the entries up to the first hit
nullReadByFind(ip) ==
  /\ typeOf(ip) = "files"
  /\ IsSome(ip[1].files)
  /\ \E k \in 1..Len(ip[1].files[1]) :
       /\ ip[1].files[1][k] = nullEntry
       /\ \A j \in withUrl(ip[1].files[1]) : k < j

\* lines 71-174: reading a member of a null entry raises a TypeError
extractionThrows(page) ==
  \/ nullReadByFind(imageProp(page))
  \/ hasNull(filesProp(page))
  \/ hasNull(props(page)["video"])

\* variant: the error of page i is caught inside the loop, which goes on
afterPageErrorCaughtPerPage(i) == [pc |-> "loop", idx |-> i]

\* lines 49, 70, 209: the try block encloses the whole loop, so an error
\* raised for page i leaves the loop with i unfinished
afterPageError(i) == [pc |-> afterCatch, idx |-> i - 1]

\* the write that ends the page raised: the for loop is left through the catch
pageThrows(calls) == \E k \in 1..Len(calls) : calls[k].kind = "hset" /\ ~calls[k].ok

\* what is remembered of the run before this one; before the first run,
\* the store as earlier passes left it
noPrev(c) == [ran |-> FALSE, results |-> <<>>, cache |-> c, clean |-> FALSE]

Init ==
  /\ env \in [EnvNames -> BOOLEAN]
  /\ pc = "start"
  /\ pass = 1
  /\ response = None
  /\ idx = 0
  /\ cache \in InitCaches
  /\ events = <<>>
  /\ thrown = None
  /\ exitCode = None
  /\ prev = noPrev(cache)
  /\ safeguardOff /\ pushAllOff /\ strapiOff

\* lines 28-37: construct the client, check the two Notion values
Start ==
  /\ pc = "start"
  /\ IF env["NOTION_KEY"] /\ env["NOTION_REDIRECTS_ID"]
     THEN /\ pc' = "fetch"
          /\ thrown' = thrown
     ELSE /\ pc' = "rejected"
          /\ thrown' = Some(configError)
  /\ UNCHANGED <<env, pass, response, idx, cache, events, exitCode, prev>>
  /\ UNCHANGED <<safeguardVars, pushAllVars, strapiVars>>

\* line 57: the page size asked for
PageSize == 100
\* line 57: body: JSON.stringify({ page_size: 100 }), the whole request body
queryBody == [page_size |-> PageSize]

\* variant: a second query follows the cursor of an answer that has more
queryEventsFollowCursor(resp) ==
  <<Event("fetch", 0, <<>>, "", resp.ok, <<queryBody>>)>>
  \o (IF resp.has_more
      THEN <<Event("fetch", 0, <<>>, "", resp.ok,
                   <<[page_size |-> PageSize, start_cursor |-> resp.next_cursor[1]]>>)>>
      ELSE <<>>)

\* lines 50-58: the queries issued in a pass, whatever the answer says
queryEvents(resp) == <<Event("fetch", 0, <<>>, "", resp.ok, <<queryBody>>)>>

\* lines 50-68: the single query; a non-success status is logged and thrown
FetchFrom(responses) ==
  /\ pc = "fetch"
  /\ \E resp \in responses :
       /\ response' = Some(resp)
       /\ IF resp.ok
          THEN /\ events' = events \o queryEvents(resp)
               /\ thrown' = thrown
               /\ pc' = "loop"
          ELSE /\ events' = events \o queryEvents(resp) \o
                    << Event("console.error", 0, <<>>, "", TRUE, notionErrorLog(resp)),
                       syncErrorLog(notionError(resp)) >>
               /\ thrown' = Some(notionError(resp))
               /\ pc' = afterCatch
  /\ UNCHANGED <<env, pass, idx, cache, exitCode, prev>>
  /\ UNCHANGED <<safeguardVars, pushAllVars, strapiVars>>

Fetch == FetchFrom(Responses)

\* lines 70-208: one iteration of the for loop; with faults, any cache call
\* of the page may fail
PageStep(faults) ==
  /\ pc = "loop"
  /\ idx < Len(results)
  /\ LET i    == idx + 1
         page == results[i]
     IN IF extractionThrows(page)
        THEN /\ events' = Append(events, syncErrorLog(<<"TypeError">>))
             /\ thrown' = Some(<<"TypeError">>)
             /\ pc' = afterPageError(i).pc
             /\ idx' = afterPageError(i).idx
             /\ cache' = cache
        ELSE IF qualifies(page)
        THEN \E oks \in [1..Len(staleFields(page)) -> IF faults THEN BOOLEAN ELSE {TRUE}],
                hsetOk \in IF faults THEN BOOLEAN ELSE {TRUE} :
               /\ cacheReachable \/ (~hsetOk /\ \A k \in DOMAIN oks : ~oks[k])
               /\ LET calls == pageCalls(i, page, oks, hsetOk)
                  IN /\ cache' = applyCalls(cache, calls, page)
                     /\ IF pageThrows(calls)
                        THEN /\ events' = events \o calls \o <<syncErrorLog(<<"hset failed">>)>>
                             /\ thrown' = Some(<<"hset failed">>)
                             /\ pc' = afterPageError(i).pc
                             /\ idx' = afterPageError(i).idx
                        ELSE /\ events' = events \o calls
                             /\ thrown' = thrown
                             /\ pc' = pc
                             /\ idx' = i
        ELSE /\ events' = Append(events, Event("console.log", i, <<>>, "", TRUE,
                                               <<"Skipping page due to missing slug or destination:", page.id>>))
             /\ idx' = i
             /\ UNCHANGED <<cache, thrown, pc>>
  /\ UNCHANGED <<env, pass, response, exitCode, prev>>
  /\ UNCHANGED <<safeguardVars, pushAllVars, strapiVars>>

ProcessPage == PageStep(TRUE)

\* line 208: the for loop has run over every result item
LoopDone ==
  /\ pc = "loop"
  /\ idx = Len(results)
  /\ pc' = "finally"
  /\ UNCHANGED <<env, pass, response, idx, cache, events, thrown, exitCode, prev>>
  /\ UNCHANGED <<safeguardVars, pushAllVars, strapiVars>>

\* lines 211-220: the finally block; n of its three calls succeed, the
\* first failing one rejects the promise of syncCampaigns
VerifyStep(faults) ==
  /\ pc = "finally"
  /\ \E n \in IF faults THEN 0..3 ELSE {3} :
       /\ cacheReachable \/ n = 0
       /\ events' = events
            \o <<Event("keys", 0, <<"campaign:*">>, "", n >= 1, <<>>)>>
            \o (IF n >= 1 THEN <<Event("set", 0, testKey, "", n >= 2, <<>>)>> ELSE <<>>)
            \o (IF n >= 2 THEN <<Event("get", 0, testKey, "", n >= 3, <<>>)>> ELSE <<>>)
       /\ cache' = IF n >= 2 THEN setTestKey(cache) ELSE cache
       /\ pc' = IF n = 3 THEN "resolved" ELSE "rejected"
       /\ thrown' = IF n = 3 THEN thrown ELSE Some(<<"redis call failed">>)
  /\ UNCHANGED <<env, pass, response, idx, exitCode, prev>>
  /\ UNCHANGED <<safeguardVars, pushAllVars, strapiVars>>

Verify == VerifyStep(TRUE)

\* line 223: .then(() => process.exit(0))
ExitResolved ==
  /\ pc = "resolved"
  /\ pc' = "exited"
  /\ exitCode' = Some(0)
  /\ UNCHANGED <<env, pass, response, idx, cache, events, thrown, prev>>
  /\ UNCHANGED <<safeguardVars, pushAllVars, strapiVars>>

\* line 223: no rejection handler; the runtime ends the process with code 1
ExitRejected ==
  /\ pc = "rejected"
  /\ pc' = "exited"
  /\ exitCode' = Some(1)
  /\ UNCHANGED <<env, pass, response, idx, cache, events, thrown, prev>>
  /\ UNCHANGED <<safeguardVars, pushAllVars, strapiVars>>

Next ==
  \/ Start
  \/ Fetch
  \/ ProcessPage
  \/ LoopDone
  \/ Verify
  \/ ExitResolved
  \/ ExitRejected

\* one run of the script, from any store, with any call failing
Spec == Init /\ [][Next]_vars

\* ------------------------------------------------------------------------
\* Successive runs of the script against the same store, every call succeeding
\* ------------------------------------------------------------------------
\* every cache call and the fetch of the run that has just ended succeeded
cleanRun ==
  /\ exitCode = Some(0)
  /\ IsNone(thrown)
  /\ \A k \in 1..Len(events) : events[k].ok

\* what the document API answers to a later run: the same list, or the list
\* with one item changed upstream
laterResponses ==
  {[ok |-> TRUE, status |-> "200", statusText |-> "OK", body |-> "", results |-> r,
    has_more |-> FALSE, next_cursor |-> None] :
     r \in {prev.results} \cup
           {[prev.results EXCEPT ![i] = p] : i \in 1..Len(prev.results), p \in Pages}}

InitTwice ==
  /\ Init
  /\ \A n \in EnvNames : env[n]

FetchFirst == pass = 1 /\ FetchFrom(OkResponses)
FetchLater == pass > 1 /\ FetchFrom(laterResponses)
ProcessPageOk == PageStep(FALSE)
VerifyOk == VerifyStep(FALSE)

\* the script is run again against the same store
Rerun ==
  /\ pc = "exited"
  /\ pass < MaxPasses
  /\ pass' = pass + 1
  /\ pc' = "start"
  /\ prev' = [ran |-> TRUE, results |-> results, cache |-> cache, clean |-> cleanRun]
  /\ response' = None
  /\ idx' = 0
  /\ events' = <<>>
  /\ thrown' = None
  /\ exitCode' = None
  /\ UNCHANGED <<env, cache>>
  /\ UNCHANGED <<safeguardVars, pushAllVars, strapiVars>>

NextTwice ==
  \/ Start
  \/ FetchFirst
  \/ FetchLater
  \/ ProcessPageOk
  \/ LoopDone
  \/ VerifyOk
  \/ ExitResolved
  \/ Rerun

SpecTwice == InitTwice /\ [][NextTwice]_vars

\* ------------------------------------------------------------------------
\* One run over a single page of the wider pool, from an empty store, every
\* call succeeding: what the loop body resolves and writes for each page shape
\* ------------------------------------------------------------------------
InitWide ==
  /\ Init
  /\ \A n \in EnvNames : env[n]
  /\ cache = emptyCache

FetchWide == FetchFrom(WideResponses)

NextWide ==
  \/ Start
  \/ FetchWide
  \/ ProcessPageOk
  \/ LoopDone
  \/ VerifyOk
  \/ ExitResolved

SpecWide == InitWide /\ [][NextWide]_vars

\* ------------------------------------------------------------------------
\* git_commit_safeguard.sh: back up, stage, commit and push the parent
\* directory or the directories named after --subdirs
\* ------------------------------------------------------------------------
\* line 53
CIRCUIT_BREAKER_LIMIT == 3

\* bound of the exploration: how many directories follow --subdirs
MaxDirs == 3

\* file names met in the working trees, in the order sort(1) gives them
fileA == <<"a">>
fileB == <<"b">>
fileGone == <<"g">>
dirLib == <<"l">>
fileSpaced == <<"m", " ", "f">>
SortedNames == <<fileA, fileB, fileGone, dirLib, fileSpaced>>

\* what git and the file system answer in each directory: the names git diff
\* and git diff --cached list, and which of them exist as a file or as a
\* directory (a deleted file is neither)
worktree(dir) ==
  CASE dir = "sub1" ->
         [git |-> TRUE, unstaged |-> {fileA}, staged |-> {fileA, fileB},
          files |-> {fileA, fileB}, dirs |-> {}]
    [] dir = "sub2" ->
         [git |-> TRUE, unstaged |-> {fileSpaced}, staged |-> {},
          files |-> {fileSpaced}, dirs |-> {}]
    [] dir = "sub3" ->
         [git |-> TRUE, unstaged |-> {fileGone}, staged |-> {dirLib},
          files |-> {}, dirs |-> {dirLib}]
    [] dir = "nogit" ->
         [git |-> FALSE, unstaged |-> {}, staged |-> {}, files |-> {}, dirs |-> {}]
    [] OTHER ->
         [git |-> TRUE, unstaged |-> {}, staged |-> {}, files |-> {}, dirs |-> {}]

DirPool == {"sub1", "sub2", "sub3", "nogit"}

\* lines 47-57: the CONFIG defaults
defaults ==
  [DRY_RUN |-> FALSE, BACKUP_DIR |-> "git_commit_backups", OVERWRITE_BACKUP |-> FALSE,
   COMMIT_MSG |-> "Auto commit", SKIP_PARENT |-> FALSE, SUBDIRS |-> <<>>,
   PARALLEL |-> FALSE, parsed |-> TRUE]

\* the words of the command lines explored that start with "-"
DashTokens ==
  {"--dry-run", "--backup-dir", "--overwrite", "-m", "--message", "--skip-parent",
   "--subdirs", "--parallel"}

\* lines 84-87: the words up to the next one that starts with "-"
RECURSIVE takeDirs(_)
takeDirs(args) ==
  IF args = <<>> \/ Head(args) \in DashTokens THEN <<>>
  ELSE <<Head(args)>> \o takeDirs(Tail(args))

\* lines 60-97: the argument loop; an option that takes a value and is the
\* last word reads an unset $2, which ends the script under set -u
RECURSIVE parseArgs(_, _)
parseArgs(args, o) ==
  IF args = <<>> THEN o
  ELSE LET a    == Head(args)
           rest == Tail(args)
       IN CASE a = "--dry-run" -> parseArgs(rest, [o EXCEPT !.DRY_RUN = TRUE])
            [] a = "--backup-dir" ->
                 IF rest = <<>> THEN [o EXCEPT !.parsed = FALSE]
                 ELSE parseArgs(Tail(rest), [o EXCEPT !.BACKUP_DIR = Head(rest)])
            [] a = "--overwrite" -> parseArgs(rest, [o EXCEPT !.OVERWRITE_BACKUP = TRUE])
            [] a \in {"-m", "--message"} ->
                 IF rest = <<>> THEN [o EXCEPT !.parsed = FALSE]
                 ELSE parseArgs(Tail(rest), [o EXCEPT !.COMMIT_MSG = Head(rest)])
            [] a = "--skip-parent" -> parseArgs(rest, [o EXCEPT !.SKIP_PARENT = TRUE])
            [] a = "--subdirs" ->
                 LET ds == takeDirs(rest)
                 IN parseArgs(SubSeq(rest, Len(ds) + 1, Len(rest)),
                              [o EXCEPT !.SUBDIRS = o.SUBDIRS \o ds])
            [] a = "--parallel" -> parseArgs(rest, [o EXCEPT !.PARALLEL = TRUE])
            [] OTHER -> parseArgs(rest, o)

\* command lines: every combination of the flags, with up to MaxDirs distinct
\* directories after --subdirs, and three with an option in an odd place
DirLists == {s \in SeqsUpTo(DirPool, MaxDirs) : \A i, j \in 1..Len(s) : i # j => s[i] # s[j]}
ArgLists ==
  {dry \o ovw \o skip \o subs \o par :
     dry \in {<<>>, <<"--dry-run">>}, ovw \in {<<>>, <<"--overwrite">>},
     skip \in {<<>>, <<"--skip-parent">>},
     subs \in {<<"--subdirs">> \o ds : ds \in DirLists},
     par \in {<<>>, <<"--parallel">>}}
  \cup {<<"-m", "--dry-run">>,
        <<"--skip-parent", "--subdirs", "sub1", "--backup-dir">>,
        <<"--subdirs", "sub1", "sub2", "--dry-run", "--skip-parent", "-m", "msg">>}

\* line 114: sort | uniq over the two lists of names
all_files(dir) ==
  LET changed(n) == n \in worktree(dir).unstaged \cup worktree(dir).staged
  IN SelectSeq(SortedNames, changed)

\* line 137: the unquoted $all_files is split into words at every blank
RECURSIVE splitWords(_, _)
splitWords(chars, word) ==
  IF chars = <<>> THEN (IF word = <<>> THEN <<>> ELSE <<word>>)
  ELSE IF Head(chars) = " "
       THEN (IF word = <<>> THEN <<>> ELSE <<word>>) \o splitWords(Tail(chars), <<>>)
       ELSE splitWords(Tail(chars), Append(word, Head(chars)))
RECURSIVE wordsOf(_)
wordsOf(names) ==
  IF names = <<>> THEN <<>> ELSE splitWords(Head(names), <<>>) \o wordsOf(Tail(names))

\* lines 118-132: where the copies of a directory go
backup_base(dir, o) ==
  [name |-> IF dir = "." THEN "parent" ELSE dir, stamped |-> ~o.OVERWRITE_BACKUP]

Cmd(cmd, arg, ok) == [cmd |-> cmd, arg |-> arg, ok |-> ok]

\* lines 135-152: one cp for every word that names a file or a directory
RECURSIVE backupCommands(_, _, _)
backupCommands(dir, o, ws) ==
  IF ws = <<>> THEN <<>>
  ELSE (IF Head(ws) \in worktree(dir).files \cup worktree(dir).dirs
        THEN <<Cmd("cp", [file |-> Head(ws), to |-> <<backup_base(dir, o), Head(ws)>>], TRUE)>>
        ELSE <<>>)
       \o backupCommands(dir, o, Tail(ws))

\* variant: the dry-run test is made in sequential mode only
dryRunSequentialOnly(o) == o.DRY_RUN /\ ~o.PARALLEL

\* line 155: if $DRY_RUN
dryRun(o) == o.DRY_RUN

\* line 171: for attempt in {1..$CIRCUIT_BREAKER_LIMIT}: brace expansion comes
\* before parameter expansion, so the list is the one word {1..3}
attempts == <<"{1..3}">>

\* lines 203, 216, 224: is commit_and_push_dir run in a background subshell
background(o) == o.SKIP_PARENT /\ o.PARALLEL

traceOf(dir) == IF dir \in DOMAIN trace THEN trace[dir] ELSE <<>>
logged(dir, cmds) == [d \in DOMAIN trace \cup {dir} |-> IF d = dir THEN traceOf(dir) \o cmds ELSE trace[d]]
newJob(count) == [pc |-> "backup", count |-> count, attempt |-> 1, status |-> <<>>]
started(dir) == [d \in DOMAIN jobs \cup {dir} |-> IF d = dir THEN newJob(circuit_breaker_count) ELSE jobs[d]]

\* where the main shell is once commit_and_push_dir has returned (status 0)
\* or has ended its shell with exit or under set -e (another status): a
\* background job ends only its own subshell
shellAfter(status) ==
  IF background(options) THEN shellPc
  ELSE IF status # 0 \/ shellPc = "parent" THEN "ended" ELSE "sequential"
exitAfter(status) ==
  IF background(options) THEN exitStatus
  ELSE IF status # 0 \/ shellPc = "parent" THEN Some(status) ELSE exitStatus
jobEnded(dir, status) ==
  [jobs EXCEPT ![dir].pc = IF status = 0 THEN "returned" ELSE "exited",
               ![dir].status = Some(status)]

\* the sync script is not the program that runs
syncOff ==
  /\ env = [n \in EnvNames |-> FALSE] /\ pc = "off" /\ pass = 0 /\ response = None
  /\ idx = 0 /\ cache = emptyCache /\ events = <<>> /\ thrown = None
  /\ exitCode = None /\ prev = noPrev(emptyCache)

InitSafeguard ==
  /\ \E argv \in ArgLists : options = parseArgs(argv, defaults)
  /\ shellPc = "main"
  /\ nextDir = 1
  /\ circuit_breaker_count = 0
  /\ jobs = <<>>
  /\ trace = <<>>
  /\ pushes = <<>>
  /\ exitStatus = None
  /\ syncOff /\ pushAllOff /\ strapiOff

\* lines 99-105, 193-199, 222-224: after the argument loop, choose the mode
MainLogic ==
  /\ shellPc = "main"
  /\ IF ~options.parsed \/ (options.SKIP_PARENT /\ options.SUBDIRS = <<>>)
     THEN /\ shellPc' = "ended"
          /\ exitStatus' = Some(1)
          /\ jobs' = jobs
     ELSE IF options.SKIP_PARENT
     THEN /\ shellPc' = IF options.PARALLEL THEN "spawn" ELSE "sequential"
          /\ UNCHANGED <<exitStatus, jobs>>
     ELSE /\ shellPc' = "parent"
          /\ jobs' = started(".")
          /\ exitStatus' = exitStatus
  /\ UNCHANGED <<options, nextDir, circuit_breaker_count, trace, pushes>>
  /\ UNCHANGED <<syncVars, pushAllVars, strapiVars>>

\* lines 214-220 and 227: one turn of the sequential loop
NextSubdir ==
  /\ shellPc = "sequential"
  /\ IF nextDir > Len(options.SUBDIRS)
     THEN /\ shellPc' = "ended"
          /\ exitStatus' = Some(0)
          /\ UNCHANGED <<nextDir, jobs, trace>>
     ELSE LET subdir == options.SUBDIRS[nextDir]
          IN /\ nextDir' = nextDir + 1
             /\ exitStatus' = exitStatus
             /\ IF worktree(subdir).git
                THEN /\ jobs' = started(subdir)
                     /\ shellPc' = "running"
                     /\ trace' = trace
                ELSE /\ trace' = logged(subdir, <<Cmd("echo", "[WARN] not a git repo, skipping", TRUE)>>)
                     /\ UNCHANGED <<jobs, shellPc>>
  /\ UNCHANGED <<options, circuit_breaker_count, pushes>>
  /\ UNCHANGED <<syncVars, pushAllVars, strapiVars>>

\* lines 200-208: one turn of the loop that starts the background jobs
Spawn ==
  /\ shellPc = "spawn"
  /\ IF nextDir > Len(options.SUBDIRS)
     THEN /\ shellPc' = "wait"
          /\ nextDir' = 1
          /\ UNCHANGED <<jobs, trace>>
     ELSE LET subdir == options.SUBDIRS[nextDir]
          IN /\ nextDir' = nextDir + 1
             /\ shellPc' = shellPc
             /\ IF worktree(subdir).git
                THEN jobs' = started(subdir) /\ trace' = trace
                ELSE /\ trace' = logged(subdir, <<Cmd("echo", "[WARN] not a git repo, skipping", TRUE)>>)
                     /\ jobs' = jobs
  /\ UNCHANGED <<options, circuit_breaker_count, pushes, exitStatus>>
  /\ UNCHANGED <<syncVars, pushAllVars, strapiVars>>

\* lines 210-212 and 227: wait for the jobs in the order they were started;
\* under set -e a job that ended with another status than 0 ends the script
isRepo(dir) == worktree(dir).git
Wait ==
  /\ shellPc = "wait"
  /\ LET pids == SelectSeq(options.SUBDIRS, isRepo)
     IN IF nextDir > Len(pids)
        THEN /\ shellPc' = "ended"
             /\ exitStatus' = Some(0)
             /\ nextDir' = nextDir
        ELSE /\ IsSome(jobs[pids[nextDir]].status)
             /\ IF jobs[pids[nextDir]].status = Some(0)
                THEN nextDir' = nextDir + 1 /\ UNCHANGED <<shellPc, exitStatus>>
                ELSE /\ shellPc' = "ended"
                     /\ exitStatus' = jobs[pids[nextDir]].status
                     /\ nextDir' = nextDir
  /\ UNCHANGED <<options, circuit_breaker_count, jobs, trace, pushes>>
  /\ UNCHANGED <<syncVars, pushAllVars, strapiVars>>

\* lines 110-152: list the changed files and copy them to the backup place
Backup(dir) ==
  /\ jobs[dir].pc = "backup"
  /\ trace' = logged(dir, backupCommands(dir, options, wordsOf(all_files(dir))))
  /\ jobs' = [jobs EXCEPT ![dir].pc = "stage"]
  /\ UNCHANGED <<options, shellPc, nextDir, circuit_breaker_count, pushes, exitStatus>>
  /\ UNCHANGED <<syncVars, pushAllVars, strapiVars>>

\* lines 154-164, 186-189: return in a dry run or when nothing changed,
\* otherwise git add .; under set -e a failing git add ends the shell
Stage(dir) ==
  /\ jobs[dir].pc = "stage"
  /\ IF dryRun(options)
     THEN /\ trace' = logged(dir, <<Cmd("echo", "[DRY RUN] Would stage, commit, and push", TRUE)>>)
          /\ jobs' = jobEnded(dir, 0)
          /\ shellPc' = shellAfter(0)
          /\ exitStatus' = exitAfter(0)
     ELSE IF all_files(dir) = <<>>
     THEN /\ trace' = logged(dir, <<Cmd("echo", "[INFO] No changes to commit", TRUE)>>)
          /\ jobs' = jobEnded(dir, 0)
          /\ shellPc' = shellAfter(0)
          /\ exitStatus' = exitAfter(0)
     ELSE \E ok \in BOOLEAN :
            /\ trace' = logged(dir, <<Cmd("git add", ".", ok)>>)
            /\ IF ok
               THEN /\ jobs' = [jobs EXCEPT ![dir].pc = "commit"]
                    /\ UNCHANGED <<shellPc, exitStatus>>
               ELSE /\ jobs' = jobEnded(dir, 1)
                    /\ shellPc' = shellAfter(1)
                    /\ exitStatus' = exitAfter(1)
  /\ UNCHANGED <<options, nextDir, circuit_breaker_count, pushes>>
  /\ UNCHANGED <<syncVars, pushAllVars, strapiVars>>

\* lines 165-170: git commit with the message, the directory appended for a
\* subdirectory; under set -e a failing git commit ends the shell
Commit(dir) ==
  /\ jobs[dir].pc = "commit"
  /\ \E ok \in BOOLEAN :
       /\ trace' = logged(dir, <<Cmd("git commit",
                                     IF dir # "." THEN <<options.COMMIT_MSG, dir>>
                                     ELSE <<options.COMMIT_MSG>>, ok)>>)
       /\ IF ok
          THEN /\ jobs' = [jobs EXCEPT ![dir].pc = "push"]
               /\ UNCHANGED <<shellPc, exitStatus>>
          ELSE /\ jobs' = jobEnded(dir, 1)
               /\ shellPc' = shellAfter(1)
               /\ exitStatus' = exitAfter(1)
  /\ UNCHANGED <<options, nextDir, circuit_breaker_count, pushes>>
  /\ UNCHANGED <<syncVars, pushAllVars, strapiVars>>

\* lines 171-185: one turn of the attempt loop; a background job counts in
\* its own copy of circuit_breaker_count
Push(dir) ==
  /\ jobs[dir].pc = "push"
  /\ jobs[dir].attempt <= Len(attempts)
  /\ \E ok \in BOOLEAN :
       LET before == IF background(options) THEN jobs[dir].count ELSE circuit_breaker_count
           count  == IF ok THEN before ELSE before + 1
           trip   == ~ok /\ count >= CIRCUIT_BREAKER_LIMIT
           last   == ok \/ jobs[dir].attempt = Len(attempts)
           status == IF trip THEN 1 ELSE 0
           after  == [jobs EXCEPT ![dir].count = IF background(options) THEN count ELSE @,
                                  ![dir].attempt = @ + 1]
       IN /\ pushes' = Append(pushes, [dir |-> dir, ok |-> ok])
          /\ trace' = logged(dir, <<Cmd("git push", attempts[jobs[dir].attempt], ok)>>
                         \o (IF trip THEN <<Cmd("echo", "[CIRCUIT BREAKER]", TRUE)>> ELSE <<>>))
          /\ circuit_breaker_count' = IF background(options) THEN circuit_breaker_count ELSE count
          /\ IF trip \/ last
             THEN /\ jobs' = [after EXCEPT ![dir].pc = IF status = 0 THEN "returned" ELSE "exited",
                                           ![dir].status = Some(status)]
                  /\ shellPc' = shellAfter(status)
                  /\ exitStatus' = exitAfter(status)
             ELSE /\ jobs' = after
                  /\ UNCHANGED <<shellPc, exitStatus>>
  /\ UNCHANGED <<options, nextDir>>
  /\ UNCHANGED <<syncVars, pushAllVars, strapiVars>>

BackupStep == \E dir \in DOMAIN jobs : Backup(dir)
StageStep == \E dir \in DOMAIN jobs : Stage(dir)
CommitStep == \E dir \in DOMAIN jobs : Commit(dir)
PushStep == \E dir \in DOMAIN jobs : Push(dir)

NextSafeguard ==
  \/ MainLogic
  \/ NextSubdir
  \/ Spawn
  \/ Wait
  \/ BackupStep
  \/ StageStep
  \/ CommitStep
  \/ PushStep

\* one run of git_commit_safeguard.sh
SpecSafeguard == InitSafeguard /\ [][NextSafeguard]_vars

\* ------------------------------------------------------------------------
\* git_push_all.sh, the two versions that count their outcomes: the second
\* script of git_push_all.sh and the script that follows inspectRedis.ts
\* ------------------------------------------------------------------------
\* bound of the exploration: repositories processed in one run
MaxRepos == 3

Versions == {"git_push_all.sh", "inspectRedis.ts"}

\* what one repository answers: can the shell cd to it, is it a git
\* directory once the submodule sync has been tried, does git status list
\* anything, with and without dirty submodules, is HEAD detached, and do
\* git add, git commit and git push succeed
RepoStates ==
  {r \in [accessible : BOOLEAN, valid : BOOLEAN, all_changes : BOOLEAN,
          ignored_changes : BOOLEAN, detached : BOOLEAN,
          addOk : BOOLEAN, commitOk : BOOLEAN, pushOk : BOOLEAN] :
     r.ignored_changes => r.all_changes}

Outcome(result, untracked, status, cmds) ==
  [result |-> result, untracked |-> untracked, status |-> status, cmds |-> cmds]

\* variant: the repository that cannot be entered is not counted as a failure
inaccessibleUncounted == Outcome("none", 0, 1, <<>>)

\* git_push_all.sh lines 92-96, inspectRedis.ts lines 90-94
inaccessible == Outcome("failure", 0, 1, <<>>)

\* git symbolic-ref -q HEAD || git rev-parse --short HEAD
git_ref(r) == IF r.detached THEN "1a2b3c4" ELSE "refs/heads/main"
\* [[ "$git_ref" != "HEAD"* ]]: neither a branch ref nor a short hash starts with HEAD
notHeadPrefixed(ref) == ref \in {"1a2b3c4", "refs/heads/main"}

\* git add . && git commit && git push: the commands run, up to the first that fails
gitChain(r) ==
  <<"git add">> \o (IF r.addOk THEN <<"git commit">> ELSE <<>>)
               \o (IF r.addOk /\ r.commitOk THEN <<"git push">> ELSE <<>>)
chainOk(r) == r.addOk /\ r.commitOk /\ r.pushOk

\* git_push_all.sh lines 85-128 and inspectRedis.ts lines 80-149: what one
\* call does besides total_repos=$((total_repos+1))
git_process_repo(version, r) ==
  IF ~r.accessible THEN inaccessible
  ELSE IF version = "inspectRedis.ts" /\ ~r.valid
  THEN Outcome("up_to_date", 0, 0, <<"git submodule sync", "git submodule update">>)
  ELSE IF ~r.ignored_changes /\ r.all_changes
  THEN IF version = "git_push_all.sh"
       THEN Outcome("failure", 0, 1, <<>>)
       ELSE Outcome(IF chainOk(r) THEN "success" ELSE "failure", 1, 0, gitChain(r))
  ELSE IF ~r.ignored_changes
  THEN Outcome("up_to_date", 0, 0, <<>>)
  ELSE Outcome(IF notHeadPrefixed(git_ref(r)) /\ chainOk(r) THEN "success" ELSE "failure",
               0, 0, gitChain(r))

plus(result, name) == IF result = name THEN 1 ELSE 0

InitPushAll ==
  /\ script \in [version : Versions, SUBMODULES_ONLY : BOOLEAN]
  /\ script.SUBMODULES_ONLY => script.version = "inspectRedis.ts"
  /\ pushAllPc = "main"
  /\ success_count = 0 /\ failure_count = 0 /\ up_to_date_count = 0
  /\ total_repos = 0 /\ untracked_count = 0
  /\ outcomes = <<>>
  /\ syncOff /\ safeguardOff /\ strapiOff

\* one call of git_process_repo
ProcessRepo ==
  \E r \in RepoStates :
    LET o == git_process_repo(script.version, r)
    IN /\ total_repos' = total_repos + 1
       /\ success_count' = success_count + plus(o.result, "success")
       /\ failure_count' = failure_count + plus(o.result, "failure")
       /\ up_to_date_count' = up_to_date_count + plus(o.result, "up_to_date")
       /\ untracked_count' = untracked_count + o.untracked
       /\ outcomes' = Append(outcomes, o)

\* git_push_all.sh line 131, inspectRedis.ts lines 152-156: the main repo,
\* unless --submodules-only was given
MainRepo ==
  /\ pushAllPc = "main"
  /\ pushAllPc' = "submodules"
  /\ IF script.SUBMODULES_ONLY
     THEN UNCHANGED <<success_count, failure_count, up_to_date_count, total_repos,
                      untracked_count, outcomes>>
     ELSE ProcessRepo
  /\ script' = script
  /\ UNCHANGED <<syncVars, safeguardVars, strapiVars>>

\* git_push_all.sh lines 134-136, inspectRedis.ts lines 159-161: one
\* submodule path read from .gitmodules
Submodule ==
  /\ pushAllPc = "submodules"
  /\ Len(outcomes) < MaxRepos
  /\ ProcessRepo
  /\ UNCHANGED <<script, pushAllPc>>
  /\ UNCHANGED <<syncVars, safeguardVars, strapiVars>>

\* git_push_all.sh lines 138-143, inspectRedis.ts lines 163-169: no path is
\* left, the totals are printed
Summary ==
  /\ pushAllPc = "submodules"
  /\ pushAllPc' = "done"
  /\ outcomes' = Append(outcomes,
       Outcome("summary", 0, 0,
               <<total_repos, success_count, up_to_date_count, failure_count>>))
  /\ UNCHANGED <<script, success_count, failure_count, up_to_date_count, total_repos,
                 untracked_count>>
  /\ UNCHANGED <<syncVars, safeguardVars, strapiVars>>

NextPushAll ==
  \/ MainRepo
  \/ Submodule
  \/ Summary

\* one run of a counting version of git_push_all.sh
SpecPushAll == InitPushAll /\ [][NextPushAll]_vars

\* ------------------------------------------------------------------------
\* strapi-utils.ts: postItems
\* ------------------------------------------------------------------------
\* bound of the exploration: length of the list handed to postItems
MaxItems == 3

ItemPool == {"item-a", "item-b"}
\* the SeedConfig handed in
cfg == [url |-> "http://localhost:1337", token |-> "t", collection |-> "categories"]

\* what fetch gives for one POST: a response, or a rejection (network error)
PostOutcomes ==
  {[ok |-> TRUE, status |-> "201", statusText |-> "Created", rejected |-> FALSE],
   [ok |-> FALSE, status |-> "400", statusText |-> "Bad Request", rejected |-> FALSE],
   [ok |-> FALSE, status |-> "500", statusText |-> "Internal Server Error", rejected |-> FALSE],
   [ok |-> FALSE, status |-> "", statusText |-> "", rejected |-> TRUE]}

\* variant: the counter is raised before the response is tested
createdAfterUntested(count, res) == count + 1

\* lines 56-65: continue on a non-success response, created++ otherwise
createdAfter(count, res) == IF res.ok THEN count + 1 ELSE count

\* lines 47-54: the request for one item
postRequest(item) ==
  [method |-> "POST", url |-> <<cfg.url, "/api/", cfg.collection>>, body |-> [data |-> item]]

InitPostItems ==
  /\ items \in SeqsUpTo(ItemPool, MaxItems)
  /\ verbose \in BOOLEAN
  /\ postPc = "loop"
  /\ created = 0
  /\ posts = <<>>
  /\ console = <<>>
  /\ syncOff /\ safeguardOff /\ pushAllOff

\* lines 46-66: one turn of the for loop
PostItem ==
  /\ postPc = "loop"
  /\ Len(posts) < Len(items)
  /\ \E res \in PostOutcomes :
       /\ posts' = Append(posts, [request |-> postRequest(items[Len(posts) + 1]), res |-> res])
       /\ IF res.rejected
          THEN /\ postPc' = "rejected"
               /\ UNCHANGED <<created, console>>
          ELSE /\ postPc' = postPc
               /\ created' = createdAfter(created, res)
               /\ console' = IF ~res.ok /\ verbose
                             THEN Append(console, <<"Failed to create", cfg.collection, res.status, res.statusText>>)
                             ELSE console
  /\ UNCHANGED <<items, verbose>>
  /\ UNCHANGED <<syncVars, safeguardVars, pushAllVars>>

\* lines 67-70: the loop is over
PostDone ==
  /\ postPc = "loop"
  /\ Len(posts) = Len(items)
  /\ postPc' = "returned"
  /\ console' = IF verbose THEN Append(console, <<"Created", created, Len(items)>>) ELSE console
  /\ UNCHANGED <<items, verbose, created, posts>>
  /\ UNCHANGED <<syncVars, safeguardVars, pushAllVars>>

NextPostItems ==
  \/ PostItem
  \/ PostDone

\* one call of postItems
SpecPostItems == InitPostItems /\ [][NextPostItems]_vars

\* ------------------------------------------------------------------------
\* Properties
\* ------------------------------------------------------------------------
\* the cache calls (deletes and write) issued for result item i, in order
callsOfPage(i) ==
  LET ofPage(e) == e.page = i /\ e.kind \in {"hdel", "hset"}
  IN SelectSeq(events, ofPage)
writesOfPage(i) ==
  LET ofPage(e) == e.page = i /\ e.kind = "hset"
  IN SelectSeq(events, ofPage)
skipLogged(i) ==
  \E k \in 1..Len(events) : events[k].kind = "console.log" /\ events[k].page = i
syncErrorLogged ==
  \E k \in 1..Len(events) :
    events[k].kind = "console.error" /\ events[k].msg # <<>> /\ events[k].msg[1] = "Sync error:"
positionsOf(kind) == {k \in 1..Len(events) : events[k].kind = kind}

\* a property whose first text run is missing or empty, or that is missing
noFirstText(page, name) ==
  LET p == props(page)[name]
  IN \/ IsNone(p)
     \/ IsNone(p[1].rich_text)
     \/ Len(p[1].rich_text[1]) = 0
     \/ IsNone(p[1].rich_text[1][1].plain_text)
     \/ p[1].rich_text[1][1].plain_text[1] = <<>>
unresolvable(page) == noFirstText(page, "Slug") \/ noFirstText(page, "Destination")

\* item i is the last finished qualifying item of this run with its slug
lastForSlug(i) ==
  /\ i \in 1..idx
  /\ qualifies(results[i])
  /\ \A j \in (i + 1)..idx :
       ~(qualifies(results[j]) /\ slugOf(results[j]) = slugOf(results[i]))
deletesSucceeded(i) ==
  \A k \in 1..Len(events) :
    (events[k].page = i /\ events[k].kind = "hdel") => events[k].ok
keyOfPage(i) == campaignKey(slugOf(results[i])[1])

\* C1: a page whose slug or destination cannot be resolved gets no cache call,
\* is logged as skipped, and the loop goes on to the next item.
C1_SkippedPageNotWritten ==
  /\ [](\A i \in 1..Len(results) :
          unresolvable(results[i]) =>
            /\ callsOfPage(i) = <<>>
            /\ (i <= idx => skipLogged(i)))
  /\ [][(pc = "loop" /\ idx < Len(results) /\ unresolvable(results[idx + 1]))
          => (pc' = "loop" /\ idx' = idx + 1 /\ cache' = cache /\ thrown' = thrown)]_vars

C1_Witness ==
  /\ pc = "exited"
  /\ \E i \in 1..Len(results) :
       /\ i < Len(results)
       /\ unresolvable(results[i])
       /\ skipLogged(i)
       /\ qualifies(results[i + 1])
       /\ Len(writesOfPage(i + 1)) = 1

\* the optional record fields and their resolved value for a page
OptionalFields == {"description", "details", "iconEmoji", "imageUrl", "videoUrl", "category", "files"}
optionalValue(page, f) ==
  IF f = "description" THEN descriptionOf(page)
  ELSE IF f = "details" THEN detailsOf(page)
  ELSE IF f = "iconEmoji" THEN iconEmojiOf(page)
  ELSE IF f = "imageUrl" THEN imageUrlOf(page)
  ELSE IF f = "videoUrl" THEN videoUrlOf(page)
  ELSE IF f = "category" THEN categoryOf(page)
  ELSE filesOf(page)

\* C2: after a qualifying page is processed (its deletes succeeding), no
\* optional field whose value is absent for the page is left in the hash at
\* campaign:<slug>, whatever was stored there before.
C2_NoStaleOptionalField ==
  \A i \in 1..Len(results) :
    (lastForSlug(i) /\ deletesSucceeded(i)) =>
      \A f \in OptionalFields :
        IsNone(optionalValue(results[i], f)) => f \notin DOMAIN hashAt(cache, keyOfPage(i))

MediaFields == {"imageUrl", "videoUrl", "files"}

C4_SecondPassSameCache ==
  (pc = "exited" /\ prev.ran /\ prev.clean /\ cleanRun /\ results = prev.results) =>
    /\ campaignKeys(cache) = campaignKeys(prev.cache)
    /\ \A k \in campaignKeys(cache) : cache[k] = prev.cache[k]

C4_Witness ==
  /\ pc = "exited"
  /\ prev.ran /\ prev.clean /\ cleanRun
  /\ results = prev.results
  /\ \E i \in 1..Len(results) : qualifies(results[i]) /\ "files" \in DOMAIN dataToStore(results[i])
  /\ \E i \in 1..Len(results) : qualifies(results[i]) /\ staleFields(results[i]) # <<>>

fetchFailed == IsSome(response) /\ ~response[1].ok
noPageTouched ==
  /\ idx = 0
  /\ \A k \in 1..Len(events) : events[k].kind \notin {"hdel", "hset", "console.log"}

\* C5 as stated: on a non-success status the raised error carries the status
\* code and the response body text, and no page is processed or written.
C5_ErrorCarriesStatusAndBody ==
  (fetchFailed /\ pc = "finally") =>
    /\ IsSome(thrown)
    /\ response[1].status \in RANGE(thrown[1])
    /\ response[1].body \in RANGE(thrown[1])
    /\ noPageTouched

\* C5 amended: on a non-success status the response body text is logged, the
\* raised error carries the status code and the status text (not the body),
\* and no page is processed and no hash write or field delete is issued.
C5_ErrorCarriesStatusBodyLogged ==
  /\ fetchFailed => noPageTouched
  /\ (fetchFailed /\ pc = "finally") =>
       /\ thrown = Some(<<"Notion API error:", response[1].status, response[1].statusText>>)
       /\ response[1].body \notin RANGE(thrown[1])
       /\ \E k \in 1..Len(events) :
            /\ events[k].kind = "console.error"
            /\ response[1].body \in RANGE(events[k].msg)
            /\ response[1].status \in RANGE(events[k].msg)

C5_Witness ==
  /\ fetchFailed
  /\ pc = "exited"
  /\ positionsOf("keys") # {}

passCutShort == syncErrorLogged \/ ~IsSome(response) \/ idx < Len(results)

\* C6: the process exits with code 0 only after a full pass; a pass cut short
\* by an error ends in a non-zero exit code.
C6_ExitCodeTellsOutcome ==
  pc = "exited" =>
    /\ exitCode = Some(0) => ~passCutShort
    /\ syncErrorLogged => exitCode # Some(0)

networkCall(e) == e.kind \in {"fetch", "hdel", "hset", "keys", "set", "get"}

\* C7: with any of the four environment values missing, no network call is
\* made and the process exits non-zero.
C7_MissingEnvFailsFast ==
  (\E n \in EnvNames : ~env[n]) =>
    /\ \A k \in 1..Len(events) : ~networkCall(events[k])
    /\ pc \notin {"fetch", "loop", "finally", "resolved"}
    /\ pc = "exited" => exitCode = Some(1)

\* C8: once the try block has been entered, with or without an exception in
\* it, the verification block runs before the process exits and after the
\* error is logged and the last page call is made: keys, then set, then get,
\* each issued when the one before it returned.
C8_VerificationAlwaysRuns ==
  (pc \in {"resolved", "rejected", "exited"} /\ IsSome(response)) =>
    \E k \in positionsOf("keys") :
      /\ positionsOf("keys") = {k}
      /\ \A j \in 1..Len(events) :
           events[j].kind \in {"fetch", "console.error", "console.log", "hdel", "hset"} => j < k
      /\ events[k].ok => (Len(events) > k /\ events[k + 1].kind = "set")
      /\ (events[k].ok /\ events[k + 1].ok) => (Len(events) > k + 1 /\ events[k + 2].kind = "get")
      /\ exitCode = Some(0) => (Len(events) = k + 2 /\ events[k + 2].ok)

C8_Witness ==
  /\ pc = "exited"
  /\ exitCode = Some(0)
  /\ syncErrorLogged
  /\ \E k \in positionsOf("hset") : ~events[k].ok
  /\ positionsOf("get") # {}

\* the calls the code issues for a qualifying page, whatever their outcome
expectedKindsOf(sf) == [k \in 1..Len(sf) |-> <<"hdel", sf[k]>>] \o << <<"hset", "">> >>
expectedKinds(page) == expectedKindsOf(staleFields(page))
kindsOf(calls) == [k \in 1..Len(calls) |-> <<calls[k].kind, calls[k].field>>]
kindsOfPage(i) == kindsOf(callsOfPage(i))
writeSucceeded(i) == Len(writesOfPage(i)) >= 1 /\ writesOfPage(i)[1].ok
onlyDeletesFailed ==
  /\ \A k \in 1..Len(events) : events[k].kind # "hdel" => events[k].ok
  /\ \A i \in 1..Len(results) : ~extractionThrows(results[i])

\* C9: a failed stale-field delete is swallowed: the other deletes and the
\* write of the page are still issued, the loop goes on, no error is logged
\* for it, and the run ends as it does when the delete succeeds.
C9_DeleteFailureSwallowed ==
  /\ \A i \in 1..Len(results) :
       /\ callsOfPage(i) # <<>> => kindsOfPage(i) = expectedKinds(results[i])
       /\ writeSucceeded(i) => i <= idx
  /\ syncErrorLogged => \/ fetchFailed
                        \/ \E k \in positionsOf("hset") : ~events[k].ok
                        \/ (idx < Len(results) /\ extractionThrows(results[idx + 1]))
  /\ (pc = "exited" /\ IsSome(response) /\ onlyDeletesFailed) =>
       (exitCode = Some(0) /\ IsNone(thrown) /\ idx = Len(results))

C9_Witness ==
  /\ pc = "exited"
  /\ exitCode = Some(0)
  /\ IsNone(thrown)
  /\ \E k \in positionsOf("hdel") :
       /\ ~events[k].ok
       /\ events[k].page < Len(results)
       /\ writeSucceeded(events[k].page)
       /\ writeSucceeded(events[k].page + 1)
       /\ \E m \in positionsOf("hdel") : m > k /\ events[m].page = events[k].page

\* C10: per result item at most one hash write: none for a skipped item,
\* exactly one for a qualifying item the loop has finished.
C10_OneWritePerPage ==
  /\ \A k \in positionsOf("hset") : events[k].page \in 1..Len(results)
  /\ \A i \in 1..Len(results) :
       /\ Len(writesOfPage(i)) <= 1
       /\ ~qualifies(results[i]) => Len(writesOfPage(i)) = 0
       /\ (i <= idx /\ qualifies(results[i])) => Len(writesOfPage(i)) = 1

C10_Witness ==
  /\ pc = "exited"
  /\ idx = Len(results)
  /\ \E i, j \in 1..Len(results) :
       /\ ~qualifies(results[i]) /\ Len(writesOfPage(i)) = 0
       /\ qualifies(results[j]) /\ Len(writesOfPage(j)) = 1

\* ------------------------------------------------------------------------
\* What is written for one page (SpecWide): read from the calls and the store
\* ------------------------------------------------------------------------
\* the loop has finished item i and item i qualified
written(i) == i \in 1..idx /\ qualifies(results[i])
\* the key of the hash write issued for item i, and the hash now at that key
writtenKey(i) == writesOfPage(i)[1].key
writtenHash(i) == cache[writtenKey(i)]
\* the text of the first run of a rich-text property of item i
firstRun(i, name) == props(results[i])[name][1].rich_text[1][1].plain_text[1]

sPromoSlug == <<"p","r","o","m","o","-","2","0","2","4">>

\* C11: for every qualifying page the key written is "campaign:" followed by
\* the first text run of Slug with exactly one leading "/" removed when the
\* text begins with "/", unchanged otherwise ("/promo-2024" gives
\* "promo-2024", "//x" gives "/x").
C11_KeyIsCampaignPlusSlug ==
  \A i \in 1..Len(results) :
    written(i) =>
      LET raw == firstRun(i, "Slug")
      IN /\ Len(writesOfPage(i)) = 1
         /\ writtenKey(i) \in DOMAIN cache
         /\ writtenKey(i)[1] = "campaign:"
         /\ raw[1] = "/" => Tail(writtenKey(i)) = SubSeq(raw, 2, Len(raw))
         /\ raw[1] # "/" => Tail(writtenKey(i)) = raw
         /\ raw = sPromo => writtenKey(i) = <<"campaign:">> \o sPromoSlug
         /\ raw = <<"/","/","x">> => writtenKey(i) = <<"campaign:", "/", "x">>

C11_Witness ==
  /\ pc = "exited"
  /\ written(1)
  /\ firstRun(1, "Slug") = <<"/","/","x">>
  /\ DOMAIN cache = {<<"campaign:", "/", "x">>, testKey}

\* JSON.parse of a stored files string (src/inspectRedis.ts): a list of
\* objects, each a function from key to string value
RECURSIVE jsonScanString(_, _, _)
jsonScanString(s, i, acc) ==
  IF s[i] = "\"" THEN [val |-> acc, next |-> i + 1]
  ELSE IF s[i] = "\\" THEN jsonScanString(s, i + 2, Append(acc, s[i + 1]))
  ELSE jsonScanString(s, i + 1, Append(acc, s[i]))
jsonAfterValue(s, obj, key, v) ==
  [val |-> obj @@ (key :> v.val), next |-> v.next, more |-> s[v.next] = ","]
jsonScanMember(s, obj, k) == jsonAfterValue(s, obj, k.val, jsonScanString(s, k.next + 2, <<>>))
RECURSIVE jsonScanMembers(_, _, _)
jsonMembersFrom(s, m) ==
  IF m.more THEN jsonScanMembers(s, m.next + 1, m.val) ELSE [val |-> m.val, next |-> m.next + 1]
jsonScanMembers(s, i, obj) == jsonMembersFrom(s, jsonScanMember(s, obj, jsonScanString(s, i + 1, <<>>)))
RECURSIVE jsonScanArray(_, _, _)
jsonArrayFrom(s, acc, m) ==
  jsonScanArray(s, IF s[m.next] = "," THEN m.next + 1 ELSE m.next, Append(acc, m.val))
jsonScanArray(s, i, acc) ==
  IF s[i] = "]" THEN acc ELSE jsonArrayFrom(s, acc, jsonScanMembers(s, i + 1, <<>>))
JSONparse(s) == jsonScanArray(s, 2, <<>>)

kName == <<"n","a","m","e">>
kUrl == <<"u","r","l">>
kKind == <<"k","i","n","d">>
kExt == <<"e","x","t">>
kExpiry == <<"e","x","p","i","r","y">>
\* a key of a parsed object, undefined when the object does not have it
member(o, key) == IF key \in DOMAIN o THEN Some(o[key]) ELSE None

\* the files list a reader gets back for item i (none when no field is stored)
storedField(i, f) == IF f \in DOMAIN writtenHash(i) THEN Some(writtenHash(i)[f]) ELSE None
readBackFiles(i) ==
  IF "files" \in DOMAIN writtenHash(i) THEN JSONparse(writtenHash(i)["files"]) ELSE <<>>

\* the candidates of the image chain as the rule lists them
propOf(i, name) == props(results[i])[name]
urlIfTyped(p) == IF IsSome(p) /\ p[1].type = "url" THEN p[1].url ELSE None
runIfTyped(p) ==
  IF IsSome(p) /\ p[1].type = "rich_text" /\ IsSome(p[1].rich_text) /\ Len(p[1].rich_text[1]) > 0
  THEN p[1].rich_text[1][1].plain_text ELSE None
hostedUrl(f) ==
  IF IsSome(f.file) /\ Truthy(f.file[1].url) THEN f.file[1].url
  ELSE IF IsSome(f.external) /\ Truthy(f.external[1].url) THEN f.external[1].url
  ELSE None
firstHosted(fs, hits) == IF hits = {} THEN None ELSE hostedUrl(fs[firstIn(hits)])
hostedIn(fs) == {k \in 1..Len(fs) : IsSome(hostedUrl(fs[k]))}
fileIfTyped(p) ==
  IF IsSome(p) /\ p[1].type = "files" /\ IsSome(p[1].files)
  THEN firstHosted(p[1].files[1], hostedIn(p[1].files[1])) ELSE None
coverIfAny(page) ==
  IF IsSome(page.cover) /\ IsSome(page.cover[1].external) THEN page.cover[1].external[1].url ELSE None
ImageExtSet == {<<"j","p","g">>, <<"j","p","e","g">>, <<"p","n","g">>, <<"g","i","f">>,
                <<"w","e","b","p">>, <<"a","v","i","f">>, <<"s","v","g">>}
VideoExtSet == {<<"m","p","4">>, <<"w","e","b","m">>, <<"o","g","g">>, <<"m","o","v">>, <<"m","4","v">>}
classifiedIn(list, kind, exts) ==
  {k \in 1..Len(list) :
     \/ list[k][kKind] = kind
     \/ (kExt \in DOMAIN list[k] /\ toLowerCase(list[k][kExt]) \in exts)}
firstClassified(list, hits) == IF hits = {} THEN None ELSE Some(list[firstIn(hits)][kUrl])
firstPresent(cands, hits) == IF hits = {} THEN None ELSE cands[firstIn(hits)]
present(cands) == {k \in 1..Len(cands) : Truthy(cands[k])}
imageCandidates(i) ==
  << urlIfTyped(propOf(i, "Image")), urlIfTyped(propOf(i, "Thumbnail")),
     runIfTyped(propOf(i, "Image")), runIfTyped(propOf(i, "Thumbnail")),
     fileIfTyped(propOf(i, "Image")), fileIfTyped(propOf(i, "Thumbnail")),
     coverIfAny(results[i]),
     firstClassified(readBackFiles(i),
                     classifiedIn(readBackFiles(i), <<"i","m","a","g","e">>, ImageExtSet)) >>
onlyBannerInMedia(page) ==
  /\ IsNone(props(page)["Image"]) /\ IsNone(props(page)["Thumbnail"]) /\ IsNone(page.cover)
  /\ IsNone(props(page)["Files"]) /\ IsNone(props(page)["File"]) /\ IsNone(props(page)["video"])
  /\ props(page)["Media"] =
       Some(NotionFilesProperty(<<NotionFilesFile(Some(sBannerPng), Some(<<"u">>), Some(<<"e">>))>>))

\* C12: the image URL written for a page is the first non-absent candidate
\* among (a) Image or Thumbnail typed url, (b) the same typed rich_text, first
\* run, (c) the same typed files, first entry with a hosted URL, (d) the cover's
\* external URL, (e) the first entry of the files list classified as an image;
\* a page with only a Media entry named banner.png gets that entry's URL, and
\* the entry has kind image.
C12_ImageUrlFirstCandidate ==
  \A i \in 1..Len(results) :
    written(i) =>
      /\ present(imageCandidates(i)) # {} =>
           storedField(i, "imageUrl") = firstPresent(imageCandidates(i), present(imageCandidates(i)))
      /\ onlyBannerInMedia(results[i]) =>
           /\ storedField(i, "imageUrl") = Some(<<"u">>)
           /\ readBackFiles(i)[1][kKind] = <<"i","m","a","g","e">>

\* the files list as the rule describes it: what each source entry contributes
PrimaryNames == <<"Media", "Files", "Image", "File">>
typedFiles(p) == IF IsSome(p) /\ p[1].type = "files" /\ IsSome(p[1].files) THEN p[1].files[1] ELSE <<>>
isTypedFiles(p) == IsSome(p) /\ p[1].type = "files" /\ IsSome(p[1].files)
sourceUrl(f) ==
  IF f.type = "file" THEN (IF IsSome(f.file) /\ IsSome(f.file[1].url) THEN f.file[1].url[1] ELSE <<>>)
  ELSE (IF IsSome(f.external) /\ IsSome(f.external[1].url) THEN f.external[1].url[1] ELSE <<>>)
sourceName(f) == IF IsSome(f.name) THEN f.name[1] ELSE sourceUrl(f)
sourceUrls(fs) == [k \in 1..Len(fs) |-> sourceUrl(fs[k])]
storedUrls(list) == [k \in 1..Len(list) |-> list[k][kUrl]]
videoExtras(i) == typedFiles(propOf(i, "video"))
primaryPart(list, extras) == SubSeq(list, 1, Len(list) - Len(extras))
extrasPart(list, extras) == SubSeq(list, Len(list) - Len(extras) + 1, Len(list))
filesNamed(i) == {k \in 1..Len(PrimaryNames) : isTypedFiles(propOf(i, PrimaryNames[k]))}
primarySource(i, hits) == IF hits = {} THEN <<>> ELSE typedFiles(propOf(i, PrimaryNames[firstIn(hits)]))

\* C13: the primary part of the files list comes from exactly one property,
\* the first of Media, Files, Image, File that is present and typed files;
\* lower-priority properties are not merged in, and a higher-priority name that
\* is absent or not typed files does not keep a lower-priority one from being used.
C13_PrimaryFromFirstFilesTyped ==
  \A i \in 1..Len(results) :
    written(i) =>
      storedUrls(primaryPart(readBackFiles(i), videoExtras(i)))
        = sourceUrls(primarySource(i, filesNamed(i)))

sourceNames(fs) == [k \in 1..Len(fs) |-> sourceName(fs[k])]
storedNames(list) == [k \in 1..Len(list) |-> list[k][kName]]
fromOnePrimary(i, part) ==
  \/ part = <<>>
  \/ \E k \in 1..Len(PrimaryNames) :
       /\ storedUrls(part) = sourceUrls(typedFiles(propOf(i, PrimaryNames[k])))
       /\ storedNames(part) = sourceNames(typedFiles(propOf(i, PrimaryNames[k])))
\* a parsed object carries the field values of a list entry
sameEntry(o, e) ==
  /\ member(o, kName) = Some(e.name)
  /\ member(o, kUrl) = Some(e.url)
  /\ member(o, kKind) = Some(kindChars(e.kind))
  /\ member(o, kExt) = e.ext
  /\ member(o, kExpiry) = e.expiry
  /\ DOMAIN o \subseteq {kName, kUrl, kKind, kExt, kExpiry}
sameList(list, files) ==
  /\ Len(list) = Len(files)
  /\ \A k \in 1..Len(files) : sameEntry(list[k], files[k])

\* C14: the files list is the primary entries in source order followed by the
\* entries of the files-typed property "video" in source order; every entry
\* taken from "video" has kind video whatever its extension; the JSON string
\* written to the files field, parsed back, gives a list of the same length,
\* order and field values.
C14_FilesOrderAndRoundTrip ==
  \A i \in 1..Len(results) :
    written(i) =>
      /\ Len(readBackFiles(i)) >= Len(videoExtras(i))
      /\ storedUrls(extrasPart(readBackFiles(i), videoExtras(i))) = sourceUrls(videoExtras(i))
      /\ storedNames(extrasPart(readBackFiles(i), videoExtras(i))) = sourceNames(videoExtras(i))
      /\ \A k \in 1..Len(videoExtras(i)) :
           extrasPart(readBackFiles(i), videoExtras(i))[k][kKind] = <<"v","i","d","e","o">>
      /\ fromOnePrimary(i, primaryPart(readBackFiles(i), videoExtras(i)))
      /\ IsSome(filesOf(results[i])) =>
           /\ "files" \in DOMAIN writtenHash(i)
           /\ sameList(readBackFiles(i), filesOf(results[i])[1])

C14_Witness ==
  /\ pc = "exited"
  /\ written(1)
  /\ Len(readBackFiles(1)) = 5
  /\ storedUrls(readBackFiles(1)) =
       <<<<"m", "1">>, <<"m", "2", ".", "m", "o", "v">>, <<"w">>, <<"z", ".", "m", "p", "4">>, <<>>>>
  /\ readBackFiles(1)[3][kExt] = <<"p","n","g">>
  /\ readBackFiles(1)[3][kKind] = <<"v","i","d","e","o">>
  /\ readBackFiles(1)[5][kName] = <<"q", "\"", "\\">>

videoEntries(i) == classifiedIn(readBackFiles(i), <<"v","i","d","e","o">>, VideoExtSet)

\* C15: the video URL written for a page is the Video property's URL when that
\* property is typed url and has a non-empty URL; otherwise the URL of the
\* first entry of the files list classified as video by kind or by extension;
\* otherwise it is absent.
C15_VideoUrlChain ==
  \A i \in 1..Len(results) :
    written(i) =>
      storedField(i, "videoUrl") =
        IF Truthy(urlIfTyped(propOf(i, "Video"))) THEN urlIfTyped(propOf(i, "Video"))
        ELSE firstClassified(readBackFiles(i), videoEntries(i))

titleRunIfTyped(p) ==
  IF IsSome(p) /\ p[1].type = "title" /\ IsSome(p[1].title) /\ Len(p[1].title[1]) > 0
  THEN p[1].title[1][1].plain_text ELSE None

\* C16: the title written for a qualifying page is the first run of Title when
\* it is typed rich_text (and has text); else the first run of Title when it is
\* typed title; else the slug. The written title is never absent.
C16_TitleFallsBackToSlug ==
  \A i \in 1..Len(results) :
    written(i) =>
      /\ Truthy(storedField(i, "title"))
      /\ storedField(i, "title") =
           IF Truthy(runIfTyped(propOf(i, "Title"))) THEN runIfTyped(propOf(i, "Title"))
           ELSE IF Truthy(titleRunIfTyped(propOf(i, "Title"))) THEN titleRunIfTyped(propOf(i, "Title"))
           ELSE Some(Tail(writtenKey(i)))

C16_Witness ==
  /\ pc = "exited"
  /\ written(1)
  /\ propOf(1, "Title") = Some(NotionTitleProperty(<<NotionRichText(<<>>)>>))
  /\ firstRun(1, "Slug") = <<"/", "x">>
  /\ storedField(1, "title") = Some(<<"x">>)

checkboxTrue(p) == IsSome(p) /\ p[1].checkbox = Some(TRUE)
selectLower(p) ==
  IF IsSome(p) /\ IsSome(p[1].select) /\ IsSome(p[1].select[1].name)
  THEN toLowerCase(p[1].select[1].name[1]) ELSE <<>>

\* C17: a page whose Pinned property carries a checkbox value of true gets
\* pinned = true, whatever select value the property also carries.
C17_PinnedCheckboxWins ==
  \A i \in 1..Len(results) :
    (written(i) /\ checkboxTrue(propOf(i, "Pinned"))) => storedField(i, "pinned") = Some(TRUE)

C17_Witness ==
  /\ pc = "exited"
  /\ written(1)
  /\ checkboxTrue(propOf(1, "Pinned"))
  /\ selectLower(propOf(1, "Pinned")) = <<"n","o">>
  /\ storedField(1, "pinned") = Some(TRUE)

TrueNames == {<<"t","r","u","e">>}
EnabledNames == {<<"t","r","u","e">>, <<"y","e","s">>, <<"e","n","a","b","l","e","d">>}
\* a boolean-like property resolved by its type
byType(p, names) ==
  IF IsSome(p) /\ p[1].type = "checkbox" THEN checkboxTrue(p)
  ELSE IF IsSome(p) /\ p[1].type = "select" THEN selectLower(p) \in names
  ELSE FALSE

\* C18 as stated: Link Tree Enabled and Pinned resolve by the property's
\* type: checkbox gives its value, select gives true exactly for the names
\* "true", "yes", "enabled" (Link Tree Enabled) or "true" (Pinned), anything
\* else gives false.
C18_BooleanByType ==
  \A i \in 1..Len(results) :
    written(i) =>
      /\ storedField(i, "linkTreeEnabled") = Some(byType(propOf(i, "Link Tree Enabled"), EnabledNames))
      /\ storedField(i, "pinned") = Some(byType(propOf(i, "Pinned"), TrueNames))

\* C18 amended: Link Tree Enabled resolves by the property's type as stated;
\* Pinned does not look at the type: it is true exactly when the property
\* carries a checkbox value of true or a select option whose lower-cased name
\* is "true" (so select "Yes" gives linkTreeEnabled true but pinned false).
C18_PinnedIgnoresType ==
  \A i \in 1..Len(results) :
    written(i) =>
      /\ storedField(i, "linkTreeEnabled") = Some(byType(propOf(i, "Link Tree Enabled"), EnabledNames))
      /\ storedField(i, "pinned") =
           Some(checkboxTrue(propOf(i, "Pinned")) \/ selectLower(propOf(i, "Pinned")) \in TrueNames)

C18_Witness ==
  /\ pc = "exited"
  /\ written(1)
  /\ propOf(1, "Pinned") = Some(NotionSelectProperty(selectNamed(Some(<<"Y","e","s">>))))
  /\ propOf(1, "Link Tree Enabled") = propOf(1, "Pinned")
  /\ storedField(1, "linkTreeEnabled") = Some(TRUE)
  /\ storedField(1, "pinned") = Some(FALSE)

UtmNames == {"utm_source", "utm_campaign", "utm_medium"}
TextFields == <<"description", "details">>
TextProps == <<"Description", "Details">>

\* C19: no field of the record handed to the hash write has a null or
\* undefined value, the fields of the utm object included; a field that
\* resolved to null/undefined is left out of the write.
C19_NoUndefinedWritten ==
  \A i \in 1..Len(results) :
    written(i) =>
      /\ \A k \in 1..Len(TextFields) :
           IsNone(runIfTyped(propOf(i, TextProps[k]))) => TextFields[k] \notin DOMAIN writtenHash(i)
      /\ \A n \in UtmNames :
           n \in DOMAIN writtenHash(i)["utm"] => IsSome(writtenHash(i)["utm"][n])

isCacheCall(e) == e.kind \in {"hdel", "hset"}
cacheCalls == SelectSeq(events, isCacheCall)
cachePositions == {k \in 1..Len(events) : isCacheCall(events[k])}
inListOrder(calls) ==
  \A k \in 1..(Len(calls) - 1) :
    /\ calls[k].page <= calls[k + 1].page
    /\ calls[k].page = calls[k + 1].page => calls[k].kind = "hdel"
lastIsWrite(calls) == calls = <<>> \/ calls[Len(calls)].page > idx \/ calls[Len(calls)].kind = "hset"

\* C20: processing is sequential and ordered: the cache calls follow the order
\* of the result list, every call for item i comes before any call for item
\* i+1, only the item the loop is at has calls beyond the finished ones, and
\* for each page every stale-field delete comes before the page's hash write.
C20_CallsInListOrder ==
  /\ inListOrder(cacheCalls)
  /\ lastIsWrite(cacheCalls)
  /\ \A k \in cachePositions : events[k].page \in 1..Len(results) /\ events[k].page <= idx + 1

C20_Witness ==
  /\ pc = "exited"
  /\ idx = 2
  /\ \E a, b, c, d \in cachePositions :
       /\ a < b /\ b < c /\ c < d
       /\ events[a].kind = "hdel" /\ events[a].page = 1
       /\ events[b].kind = "hset" /\ events[b].page = 1
       /\ events[c].kind = "hdel" /\ events[c].page = 2
       /\ events[d].kind = "hset" /\ events[d].page = 2

\* ------------------------------------------------------------------------
\* C21: a pass issues exactly one query to the document API, asking for a
\* page size of 100 and naming no cursor; whatever the answer says about
\* further pages, no second query is made, and every page the loop touches
\* is an item of that one answer.
\* ------------------------------------------------------------------------
C21_SingleQueryNoCursor ==
  LET q == positionsOf("fetch")
  IN /\ Cardinality(q) <= 1
     /\ IsSome(response) => Cardinality(q) = 1
     /\ \A k \in q : events[k].msg = <<[page_size |-> 100]>>
     /\ \A k \in 1..Len(events) :
          events[k].page # 0 =>
            /\ events[k].page \in 1..Len(results)
            /\ \A j \in q : j < k
            /\ isCacheCall(events[k]) => events[k].key = keyOfPage(events[k].page)

C21_Witness ==
  /\ pc = "exited"
  /\ response[1].has_more
  /\ IsSome(response[1].next_cursor)
  /\ Cardinality(positionsOf("fetch")) = 1
  /\ written(1)
  /\ writeSucceeded(1)

\* ------------------------------------------------------------------------
\* C26: when the "Image" property is present but yields no URL through the
\* typed url, rich_text and files steps, and "Thumbnail" is typed url with a
\* non-empty URL, the image URL written for the page is the Thumbnail URL.
\* ------------------------------------------------------------------------
imageYieldsNoUrl(i) ==
  /\ IsSome(propOf(i, "Image"))
  /\ ~Truthy(urlIfTyped(propOf(i, "Image")))
  /\ ~Truthy(runIfTyped(propOf(i, "Image")))
  /\ ~Truthy(fileIfTyped(propOf(i, "Image")))

C26_ThumbnailWhenImageHasNoUrl ==
  \A i \in 1..Len(results) :
    (written(i) /\ imageYieldsNoUrl(i) /\ Truthy(urlIfTyped(propOf(i, "Thumbnail")))) =>
      storedField(i, "imageUrl") = urlIfTyped(propOf(i, "Thumbnail"))

\* ------------------------------------------------------------------------
\* C27: after a qualifying page is processed with every cache call
\* succeeding, the hash at campaign:<slug> has a files field exactly when
\* the consolidated files list of the page is non-empty.
\* ------------------------------------------------------------------------
consolidatedFiles(page) == IF IsSome(filesOf(page)) THEN filesOf(page)[1] ELSE <<>>

C27_FilesFieldIffNonEmpty ==
  \A i \in 1..Len(results) :
    (written(i) /\ \A k \in 1..Len(events) : events[k].ok) =>
      ("files" \in DOMAIN writtenHash(i) <=> Len(consolidatedFiles(results[i])) > 0)

\* ------------------------------------------------------------------------
\* C28: a pass never deletes a whole key of the store and never changes a
\* campaign hash whose slug is not the slug of a qualifying item of the
\* current answer; the only other key it writes is the diagnostic key.
\* ------------------------------------------------------------------------
qualifyingKeys ==
  {campaignKey(slugOf(results[i])[1]) : i \in {j \in 1..Len(results) : qualifies(results[j])}}

C28_OtherCampaignsUntouched ==
  LET touched == qualifyingKeys
  IN  /\ DOMAIN prev.cache \subseteq DOMAIN cache
      /\ \A k \in DOMAIN prev.cache :
           (k \notin touched /\ k # testKey) => cache[k] = prev.cache[k]
      /\ (DOMAIN cache \ DOMAIN prev.cache) \subseteq (touched \cup {testKey})
      /\ \A n \in 1..Len(events) :
           /\ isCacheCall(events[n]) => events[n].key \in touched
           /\ events[n].kind = "set" => events[n].key = testKey
           /\ events[n].kind \in {"fetch", "console.error", "console.log", "hdel", "hset", "keys", "set", "get"}

C28_Witness ==
  /\ pc = "exited"
  /\ qualifyingKeys = {campaignKey(<<"b">>)}
  /\ campaignKey(<<"a">>) \in DOMAIN prev.cache
  /\ cache[campaignKey(<<"a">>)] = prev.cache[campaignKey(<<"a">>)]
  /\ campaignKey(<<"b">>) \in DOMAIN prev.cache
  /\ cache[campaignKey(<<"b">>)] # prev.cache[campaignKey(<<"b">>)]
  /\ testKey \in DOMAIN cache

\* ------------------------------------------------------------------------
\* C25: an exception raised while page i is processed, in extraction or in
\* the hash write, is not caught per page: the loop is left, no delete or
\* write is issued for any page after i, nothing is issued once the error is
\* logged, and what was written for the pages before i stays in the store.
\* ------------------------------------------------------------------------
raisedInLoop == IsSome(response) /\ response[1].ok /\ syncErrorLogged
laterTouches(j) ==
  \E n \in 1..Len(events) :
    isCacheCall(events[n]) /\ events[n].page > j /\ events[n].key = keyOfPage(j)
storedStays(j) ==
  LET key == keyOfPage(j)
      data == dataToStore(results[j])
  IN  /\ key \in DOMAIN cache
      /\ \A f \in DOMAIN data :
           /\ f \in DOMAIN cache[key]
           /\ cache[key][f] = data[f]

C25_ExceptionAbortsPass ==
  raisedInLoop =>
    /\ pc # "loop"
    /\ idx < Len(results)
    /\ LET logs == positionsOf("console.error")
       IN  \A n \in 1..Len(events) :
             /\ events[n].page <= idx + 1
             /\ isCacheCall(events[n]) => \A m \in logs : n < m
    /\ \A j \in 1..idx :
         (writeSucceeded(j) /\ ~laterTouches(j)) => storedStays(j)

C25_Witness ==
  /\ pc = "exited"
  /\ raisedInLoop
  /\ Len(results) = 2
  /\ idx = 1
  /\ writeSucceeded(1)
  /\ storedStays(1)
  /\ extractionThrows(results[2])
  /\ callsOfPage(2) = <<>>

\* ------------------------------------------------------------------------
\* C22: for every directory commit_and_push_dir processes, every changed
\* file of the directory (listed by git diff or git diff --cached and still
\* in the working tree) has been copied to the backup place of the
\* directory before any git add, git commit or git push runs there.
\* ------------------------------------------------------------------------
gitOps == {"git add", "git commit", "git push"}
changedPresent(dir) ==
  (worktree(dir).unstaged \cup worktree(dir).staged) \cap (worktree(dir).files \cup worktree(dir).dirs)
copiedBefore(dir, name, n) ==
  \E m \in 1..(n - 1) :
    /\ trace[dir][m].cmd = "cp"
    /\ trace[dir][m].arg = [file |-> name, to |-> <<backup_base(dir, options), name>>]

C22_BackupBeforeGit ==
  \A dir \in DOMAIN trace :
    \A n \in 1..Len(trace[dir]) :
      trace[dir][n].cmd \in gitOps =>
        \A name \in changedPresent(dir) : copiedBefore(dir, name, n)

\* ------------------------------------------------------------------------
\* C23: in a run with --dry-run no git add, git commit or git push is
\* executed in any directory, in sequential and in parallel mode, whatever
\* the other options are.
\* ------------------------------------------------------------------------
C23_DryRunRunsNoGit ==
  options.DRY_RUN =>
    /\ pushes = <<>>
    /\ \A dir \in DOMAIN trace :
         \A n \in 1..Len(trace[dir]) : trace[dir][n].cmd \notin gitOps

C23_Witness ==
  /\ options.DRY_RUN
  /\ background(options)
  /\ shellPc = "ended"
  /\ exitStatus = Some(0)
  /\ {"sub1", "sub2"} \subseteq DOMAIN jobs
  /\ jobs["sub1"].pc = "returned"
  /\ jobs["sub2"].pc = "returned"
  /\ \E n \in 1..Len(trace["sub1"]) : trace["sub1"][n].cmd = "cp"
  /\ \E n \in 1..Len(trace["sub1"]) : trace["sub1"][n].cmd = "echo"

\* ------------------------------------------------------------------------
\* C24: the circuit breaker ends the script with exit 1 only after more
\* than 3 consecutive git push failures; a failed push that does not trip
\* it is retried, so a directory whose function returned after pushing
\* ended on a successful push.
\* ------------------------------------------------------------------------
tripped ==
  \E dir \in DOMAIN trace :
    \E n \in 1..Len(trace[dir]) :
      trace[dir][n].cmd = "echo" /\ trace[dir][n].arg = "[CIRCUIT BREAKER]"
pushesOf(dir) == {n \in 1..Len(trace[dir]) : trace[dir][n].cmd = "git push"}

C24_BreakerAfterMoreThanThree ==
  /\ tripped =>
       /\ Len(pushes) > CIRCUIT_BREAKER_LIMIT
       /\ \A k \in (Len(pushes) - CIRCUIT_BREAKER_LIMIT)..Len(pushes) : ~pushes[k].ok
  /\ \A dir \in DOMAIN jobs :
       (jobs[dir].pc = "returned" /\ pushesOf(dir) # {}) =>
         \E n \in pushesOf(dir) : trace[dir][n].ok

\* ------------------------------------------------------------------------
\* C29: in the counting versions of git_push_all.sh, after every call of
\* git_process_repo and at the final summary, total_repos equals
\* success_count + failure_count + up_to_date_count: every processed
\* repository raised exactly one of the three outcome counters.
\* ------------------------------------------------------------------------
processed == {k \in 1..Len(outcomes) : outcomes[k].result # "summary"}
countOf(name) == Cardinality({k \in processed : outcomes[k].result = name})

C29_TotalIsSumOfOutcomes ==
  /\ total_repos = success_count + failure_count + up_to_date_count
  /\ total_repos = Cardinality(processed)
  /\ success_count = countOf("success")
  /\ failure_count = countOf("failure")
  /\ up_to_date_count = countOf("up_to_date")
  /\ \A k \in 1..Len(outcomes) :
       outcomes[k].result = "summary" =>
         outcomes[k].cmds[1] = outcomes[k].cmds[2] + outcomes[k].cmds[3] + outcomes[k].cmds[4]

C29_Witness ==
  /\ pushAllPc = "done"
  /\ script.version = "inspectRedis.ts"
  /\ total_repos = 3
  /\ success_count = 1 /\ failure_count = 1 /\ up_to_date_count = 1
  /\ untracked_count = 1
  /\ outcomes[1].status = 1

\* ------------------------------------------------------------------------
\* C30: postItems issues one POST per item, in list order; a non-success
\* response neither stops nor repeats anything, every later item is still
\* POSTed, and the created count is the number of items whose POST
\* returned success.
\* ------------------------------------------------------------------------
succeeded == {k \in 1..Len(posts) : posts[k].res.ok}

C30_OnePostPerItemInOrder ==
  /\ Len(posts) <= Len(items)
  /\ \A k \in 1..Len(posts) : posts[k].request = postRequest(items[k])
  /\ created = Cardinality(succeeded)
  /\ postPc = "returned" => Len(posts) = Len(items)
  /\ postPc = "rejected" => posts[Len(posts)].res.rejected
  /\ \A k \in 1..(Len(posts) - 1) : ~posts[k].res.rejected
  /\ (postPc = "returned" /\ verbose) => console[Len(console)] = <<"Created", Cardinality(succeeded), Len(items)>>

C30_Witness ==
  /\ postPc = "returned"
  /\ Len(items) = 3
  /\ ~posts[1].res.ok
  /\ posts[2].res.ok
  /\ ~posts[3].res.ok
  /\ created = 1
  /\ verbose


====
